---- MODULE Spec2Model ----
(***************************************************************************)
(* DRIP streaming-payments escrow: the sBTC ledger and the STX ledger of   *)
(* drip-core-testnet.clar (create / withdraw / cancel, linear vesting),    *)
(* modelled as a state machine over the contract's data vars and maps, the *)
(* token balances the contract moves, and the chain's block height.        *)
(*                                                                         *)
(* Clarity semantics the model relies on:                                  *)
(*  - a public function that returns (err ..) has every change it made     *)
(*    (map writes, var writes, asset transfers) rolled back;               *)
(*  - uint arithmetic that overflows or underflows is a runtime error: the *)
(*    transaction aborts, nothing is committed and no response is returned;*)
(*  - the bindings of a let are evaluated, in order, before its body.      *)
(***************************************************************************)
EXTENDS Integers, Sequences, FiniteSets, TLC

VARIABLES
    block_height,           \* stacks-block-height
    stream_nonce,           \* (define-data-var stream-nonce uint u0)
    streams,                \* (define-map streams uint {...})
    sender_streams,         \* (define-map sender-streams principal (list 50 uint))
    recipient_streams,      \* (define-map recipient-streams principal (list 50 uint))
    sbtc_balances,          \* sbtc-token balances of the principals and of the contract
    stx_stream_nonce,       \* (define-data-var stx-stream-nonce uint u0)
    stx_streams,            \* (define-map stx-streams uint {...})
    stx_sender_streams,     \* (define-map stx-sender-streams principal (list 50 uint))
    stx_recipient_streams,  \* (define-map stx-recipient-streams principal (list 50 uint))
    stx_balances,           \* STX balances of the principals and of the contract
    last                    \* the last call: its function, stream id, response and the
                            \* transfers it executed

sbtc_vars == <<stream_nonce, streams, sender_streams, recipient_streams, sbtc_balances>>
stx_vars == <<stx_stream_nonce, stx_streams, stx_sender_streams, stx_recipient_streams, stx_balances>>
vars == <<block_height, sbtc_vars, stx_vars, last>>

----------------------------------------------------------------------------
\* Bounds of the model.

\* Streams created in one run, over both ledgers.
MaxStreams == 2
\* Largest total-amount a create call is tried with.
MaxAmount == 2
\* Largest duration-blocks a create call is tried with.
MaxDuration == 2
\* Last block height a run reaches.
MaxHeight == 4
\* Balance of each asset every wallet starts with.
InitBalance == 2
\* Width of a uint in bits (128 in Clarity), scaled down.
UintBits == 22

\* The wallets of the tests (sender, recipient, unauthorized); any of them may call.
Principals == {"wallet_1", "wallet_2", "wallet_3"}
\* The wallets create is tried by, and the recipients it is tried with: a stream
\* between two wallets, a stream of a wallet to itself, and a wallet that is no party.
Senders == {"wallet_1", "wallet_2"}
Recipients == {"wallet_2"}
Amounts == 0..MaxAmount
\* Durations create is tried with: none, and one over which vesting is gradual.
Durations == {0, MaxDuration}
UintMax == 2^UintBits - 1

----------------------------------------------------------------------------
\* Constants of the contract.

ERR_STREAM_NOT_FOUND == 101
ERR_STREAM_DEPLETED == 102
ERR_INVALID_AMOUNT == 103
ERR_INVALID_DURATION == 104
ERR_NOT_RECIPIENT == 105
ERR_NOT_SENDER == 106
ERR_STREAM_NOT_ACTIVE == 107
ERR_TRANSFER_FAILED == 108
ERR_STX_TRANSFER_FAILED == 109
\* (list 50 uint), (as-max-len? .. u50)
MaxListLen == 50

\* current-contract: the escrow principal.
get_contract_principal == "drip-core"
Holders == Principals \cup {get_contract_principal}

----------------------------------------------------------------------------
\* Responses and uint arithmetic.

Ok(v) == [kind |-> "ok", val |-> v]
Err(code) == [kind |-> "err", val |-> code]
\* A runtime error: the transaction aborts without a response.
RuntimeError == [kind |-> "abort", val |-> 0]

IsErr(res, code) == res.kind = "err" /\ res.val = code

\* Whether an arithmetic result is representable as a uint.
Fits(x) == x >= 0 /\ x <= UintMax

\* Faulty variant: a failing call keeps the transfer it had executed.
Rollback_keeps_transfers(s, res, log) ==
    [res |-> res,
     st |-> IF log = <<>> THEN s
            ELSE [s EXCEPT !.bal = [@ EXCEPT ![log[1][1]] = @ - log[1][3],
                                             ![log[1][2]] = @ + log[1][3]]],
     log |-> log]

\* The outcome of a call that did not return ok: the state as before the call.
\* `log` lists the transfers <<from, to, amount>> the call had executed, which are
\* undone with everything else.
Rollback(s, res, log) == [res |-> res, st |-> s, log |-> log]

----------------------------------------------------------------------------
\* Asset transfers.

\* The errors an sbtc-token transfer may return for reasons of its own
\* (0: none; u4: the token contract rejects the call).
TokenRejections == {0, 4}

\* sbtc-token transfer (SIP-010, ft-transfer?): (err u3) for a zero amount, (err u2)
\* when sender and recipient are the same, (err u1) for an insufficient balance;
\* `rej`, when not 0, is the error with which the external token contract rejects.
sbtc_transfer(bal, amount, from, to, rej) ==
    IF rej # 0 THEN [ok |-> FALSE, err |-> rej, bal |-> bal]
    ELSE IF amount = 0 THEN [ok |-> FALSE, err |-> 3, bal |-> bal]
    ELSE IF from = to THEN [ok |-> FALSE, err |-> 2, bal |-> bal]
    ELSE IF bal[from] < amount THEN [ok |-> FALSE, err |-> 1, bal |-> bal]
    ELSE [ok |-> TRUE, err |-> 0,
          bal |-> [bal EXCEPT ![from] = @ - amount, ![to] = @ + amount]]

\* (as-contract? ((with-ft .. amount)) (try! (contract-call? .. transfer amount tx-sender to none)))
\* The allowance is the amount transferred, so it is never exceeded.
transfer_sbtc_from_escrow(bal, amount, to, rej) ==
    sbtc_transfer(bal, amount, get_contract_principal, to, rej)

\* (stx-transfer? amount sender recipient) with sender the tx-sender: (err u3) for a
\* zero amount, (err u2) when sender and recipient are the same, (err u1) for an
\* insufficient balance.
stx_transfer(bal, amount, from, to) ==
    IF amount = 0 THEN [ok |-> FALSE, err |-> 3, bal |-> bal]
    ELSE IF from = to THEN [ok |-> FALSE, err |-> 2, bal |-> bal]
    ELSE IF bal[from] < amount THEN [ok |-> FALSE, err |-> 1, bal |-> bal]
    ELSE [ok |-> TRUE, err |-> 0,
          bal |-> [bal EXCEPT ![from] = @ - amount, ![to] = @ + amount]]

----------------------------------------------------------------------------
\* Private functions.

\* The result of a uint computation: a value, or a runtime error.
Val(v) == [abort |-> FALSE, val |-> v]
Overflow == [abort |-> TRUE, val |-> 0]

\* Faulty variant: no cap at the end block.
calculate_vested_amount_uncapped(strs, stream_id, current) ==
    IF stream_id \notin DOMAIN strs THEN Val(0)
    ELSE
      LET stream == strs[stream_id]
          total == stream.total_amount
          start == stream.start_block
          end == stream.end_block
      IN
      IF current <= start THEN Val(0)
      ELSE IF ~Fits(total * (current - start)) THEN Overflow
      ELSE Val((total * (current - start)) \div (end - start))

\* Faulty variant: the division rounds up.
calculate_vested_amount_rounds_up(strs, stream_id, current) ==
    IF stream_id \notin DOMAIN strs THEN Val(0)
    ELSE
      LET stream == strs[stream_id]
          total == stream.total_amount
          start == stream.start_block
          end == stream.end_block
      IN
      IF current <= start THEN Val(0)
      ELSE IF current >= end THEN Val(total)
      ELSE IF ~Fits(total * (current - start)) THEN Overflow
      ELSE Val((total * (current - start) + (end - start) - 1) \div (end - start))

calculate_vested_amount(strs, stream_id, current) ==
    IF stream_id \notin DOMAIN strs THEN Val(0)
    ELSE
      LET stream == strs[stream_id]
          total == stream.total_amount
          start == stream.start_block
          end == stream.end_block
      IN
      IF current <= start THEN Val(0)
      ELSE IF current >= end THEN Val(total)
      ELSE IF ~Fits(total * (current - start)) THEN Overflow
      ELSE Val((total * (current - start)) \div (end - start))

\* Faulty variant: the new id is appended twice.
add_to_list_appends_twice(stream_id, current_list) ==
    IF Len(current_list) + 2 <= MaxListLen
    THEN current_list \o <<stream_id, stream_id>>
    ELSE current_list

\* Faulty variant: a full list drops its oldest entry for the new id.
add_to_list_evicts_oldest(stream_id, current_list) ==
    IF Len(Append(current_list, stream_id)) <= MaxListLen
    THEN Append(current_list, stream_id)
    ELSE Append(Tail(current_list), stream_id)

\* Faulty variant: the new id is put in front.
add_to_list_prepends(stream_id, current_list) ==
    IF Len(Append(current_list, stream_id)) <= MaxListLen
    THEN <<stream_id>> \o current_list
    ELSE current_list

add_to_list(stream_id, current_list) ==
    IF Len(Append(current_list, stream_id)) <= MaxListLen
    THEN Append(current_list, stream_id)
    ELSE current_list

----------------------------------------------------------------------------
\* Public functions of the sBTC ledger.  `s` is the ledger's state:
\* [nonce, streams, snd, rcp, bal]; the result is the response, the state after and
\* the transfers executed.

\* Faulty variant: the record is left as it was.
record_withdrawal_skipped(strs, stream_id, vested) == strs

\* Faulty variant: the withdrawal that empties the stream also closes it.
record_withdrawal_closes(strs, stream_id, vested) ==
    [strs EXCEPT ![stream_id] =
        [@ EXCEPT !.withdrawn = vested,
                  !.active = @ /\ vested < strs[stream_id].total_amount]]

\* (map-set streams stream-id (merge stream { withdrawn: vested }))
record_withdrawal(strs, stream_id, vested) ==
    [strs EXCEPT ![stream_id] = [@ EXCEPT !.withdrawn = vested]]

\* Faulty variant: the stream stays active.
record_cancellation_still_active(strs, stream_id, vested) ==
    [strs EXCEPT ![stream_id] = [@ EXCEPT !.withdrawn = vested]]

\* Faulty variant: withdrawn is not brought up to the vested amount.
record_cancellation_stale_withdrawn(strs, stream_id, vested) ==
    [strs EXCEPT ![stream_id] = [@ EXCEPT !.active = FALSE]]

\* Faulty variant: the cancellation clears withdrawn.
record_cancellation_resets_withdrawn(strs, stream_id, vested) ==
    [strs EXCEPT ![stream_id] = [@ EXCEPT !.active = FALSE, !.withdrawn = 0]]

\* (map-set streams stream-id (merge stream { active: false, withdrawn: vested }))
record_cancellation(strs, stream_id, vested) ==
    [strs EXCEPT ![stream_id] = [@ EXCEPT !.active = FALSE, !.withdrawn = vested]]

\* Faulty variant: the refund ignores what has vested.
refund_amount_full(total, vested) == total

\* (sender-refund (- total vested)) of cancel-stream
refund_amount(total, vested) == total - vested

\* Faulty variant: the parties are stored the wrong way round.
new_stream_parties_swapped(sender, recipient, total_amount, start_block, end_block) ==
    [sender |-> recipient,
     recipient |-> sender,
     total_amount |-> total_amount,
     withdrawn |-> 0,
     start_block |-> start_block,
     end_block |-> end_block,
     active |-> TRUE]

\* The tuple create-stream stores: (map-set streams stream-id { .. })
new_stream(sender, recipient, total_amount, start_block, end_block) ==
    [sender |-> sender,
     recipient |-> recipient,
     total_amount |-> total_amount,
     withdrawn |-> 0,
     start_block |-> start_block,
     end_block |-> end_block,
     active |-> TRUE]

\* Faulty variant: the counter is not advanced.
next_nonce_stuck(stream_id) == stream_id

\* (var-set stream-nonce (+ stream-id u1))
next_nonce(stream_id) == stream_id + 1

\* Faulty variant: the duration is not validated.
create_stream_duration_unchecked(s, height, tx_sender, recipient, total_amount, duration_blocks, rej) ==
    LET stream_id == s.nonce
        start_block == height
        end_block == height + duration_blocks
        sender == tx_sender
    IN
    IF ~Fits(end_block) THEN Rollback(s, RuntimeError, <<>>)
    ELSE IF ~(total_amount > 0) THEN Rollback(s, Err(ERR_INVALID_AMOUNT), <<>>)
    ELSE
      LET t == sbtc_transfer(s.bal, total_amount, sender, get_contract_principal, rej)
      IN
      IF ~t.ok THEN Rollback(s, Err(t.err), <<>>)
      ELSE IF ~Fits(stream_id + 1)
      THEN Rollback(s, RuntimeError, <<<<sender, get_contract_principal, total_amount>>>>)
      ELSE
        [res |-> Ok(stream_id),
         st |-> [nonce |-> stream_id + 1,
                 streams |-> (stream_id :> new_stream(sender, recipient, total_amount,
                                                     start_block, end_block)) @@ s.streams,
                 snd |-> [s.snd EXCEPT ![sender] = add_to_list(stream_id, @)],
                 rcp |-> [s.rcp EXCEPT ![recipient] = add_to_list(stream_id, @)],
                 bal |-> t.bal],
         log |-> <<<<sender, get_contract_principal, total_amount>>>>]

create_stream(s, height, tx_sender, recipient, total_amount, duration_blocks, rej) ==
    LET stream_id == s.nonce
        start_block == height
        end_block == height + duration_blocks
        sender == tx_sender
    IN
    IF ~Fits(end_block) THEN Rollback(s, RuntimeError, <<>>)
    ELSE IF ~(total_amount > 0) THEN Rollback(s, Err(ERR_INVALID_AMOUNT), <<>>)
    ELSE IF ~(duration_blocks > 0) THEN Rollback(s, Err(ERR_INVALID_DURATION), <<>>)
    ELSE
      LET t == sbtc_transfer(s.bal, total_amount, sender, get_contract_principal, rej)
      IN
      IF ~t.ok THEN Rollback(s, Err(t.err), <<>>)
      ELSE IF ~Fits(stream_id + 1)
      THEN Rollback(s, RuntimeError, <<<<sender, get_contract_principal, total_amount>>>>)
      ELSE
        [res |-> Ok(stream_id),
         st |-> [nonce |-> next_nonce(stream_id),
                 streams |-> (stream_id :> new_stream(sender, recipient, total_amount,
                                                     start_block, end_block)) @@ s.streams,
                 snd |-> [s.snd EXCEPT ![sender] = add_to_list(stream_id, @)],
                 rcp |-> [s.rcp EXCEPT ![recipient] = add_to_list(stream_id, @)],
                 bal |-> t.bal],
         log |-> <<<<sender, get_contract_principal, total_amount>>>>]

\* Faulty variant: the active check comes before the recipient check.
withdraw_active_checked_first(s, height, tx_sender, stream_id, rej) ==
    IF stream_id \notin DOMAIN s.streams THEN Rollback(s, Err(ERR_STREAM_NOT_FOUND), <<>>)
    ELSE
      LET stream == s.streams[stream_id]
          recipient == stream.recipient
          withdrawn == stream.withdrawn
          v == calculate_vested_amount(s.streams, stream_id, height)
          vested == v.val
          available == vested - withdrawn
      IN
      IF v.abort \/ ~Fits(available) THEN Rollback(s, RuntimeError, <<>>)
      ELSE IF ~stream.active THEN Rollback(s, Err(ERR_STREAM_NOT_ACTIVE), <<>>)
      ELSE IF tx_sender # recipient THEN Rollback(s, Err(ERR_NOT_RECIPIENT), <<>>)
      ELSE IF ~(available > 0) THEN Rollback(s, Err(ERR_STREAM_DEPLETED), <<>>)
      ELSE
        LET t == transfer_sbtc_from_escrow(s.bal, available, recipient, rej)
        IN
        IF ~t.ok THEN Rollback(s, Err(t.err), <<>>)
        ELSE
          [res |-> Ok(available),
           st |-> [s EXCEPT !.bal = t.bal,
                            !.streams = record_withdrawal(@, stream_id, vested)],
           log |-> <<<<get_contract_principal, recipient, available>>>>]

\* Faulty variant: a withdraw of nothing is not turned down.
withdraw_depleted_unchecked(s, height, tx_sender, stream_id, rej) ==
    IF stream_id \notin DOMAIN s.streams THEN Rollback(s, Err(ERR_STREAM_NOT_FOUND), <<>>)
    ELSE
      LET stream == s.streams[stream_id]
          recipient == stream.recipient
          withdrawn == stream.withdrawn
          v == calculate_vested_amount(s.streams, stream_id, height)
          vested == v.val
          available == vested - withdrawn
      IN
      IF v.abort \/ ~Fits(available) THEN Rollback(s, RuntimeError, <<>>)
      ELSE IF tx_sender # recipient THEN Rollback(s, Err(ERR_NOT_RECIPIENT), <<>>)
      ELSE IF ~stream.active THEN Rollback(s, Err(ERR_STREAM_NOT_ACTIVE), <<>>)
      ELSE
        LET t == transfer_sbtc_from_escrow(s.bal, available, recipient, rej)
        IN
        IF ~t.ok THEN Rollback(s, Err(t.err), <<>>)
        ELSE
          [res |-> Ok(available),
           st |-> [s EXCEPT !.bal = t.bal,
                            !.streams = record_withdrawal(@, stream_id, vested)],
           log |-> <<<<get_contract_principal, recipient, available>>>>]

withdraw(s, height, tx_sender, stream_id, rej) ==
    IF stream_id \notin DOMAIN s.streams THEN Rollback(s, Err(ERR_STREAM_NOT_FOUND), <<>>)
    ELSE
      LET stream == s.streams[stream_id]
          recipient == stream.recipient
          withdrawn == stream.withdrawn
          v == calculate_vested_amount(s.streams, stream_id, height)
          vested == v.val
          available == vested - withdrawn
      IN
      IF v.abort \/ ~Fits(available) THEN Rollback(s, RuntimeError, <<>>)
      ELSE IF tx_sender # recipient THEN Rollback(s, Err(ERR_NOT_RECIPIENT), <<>>)
      ELSE IF ~stream.active THEN Rollback(s, Err(ERR_STREAM_NOT_ACTIVE), <<>>)
      ELSE IF ~(available > 0) THEN Rollback(s, Err(ERR_STREAM_DEPLETED), <<>>)
      ELSE
        LET t == transfer_sbtc_from_escrow(s.bal, available, recipient, rej)
        IN
        IF ~t.ok THEN Rollback(s, Err(t.err), <<>>)
        ELSE
          [res |-> Ok(available),
           st |-> [s EXCEPT !.bal = t.bal,
                            !.streams = record_withdrawal(@, stream_id, vested)],
           log |-> <<<<get_contract_principal, recipient, available>>>>]

\* Faulty variant: the transfer is attempted whatever the amount.
transfer_if_positive_unguarded(bal, amount, to, rej) ==
    transfer_sbtc_from_escrow(bal, amount, to, rej)

\* (if (> amount u0) (try! (transfer-sbtc-from-escrow amount to)) true)
transfer_if_positive(bal, amount, to, rej) ==
    IF amount > 0
    THEN transfer_sbtc_from_escrow(bal, amount, to, rej)
    ELSE [ok |-> TRUE, err |-> 0, bal |-> bal]

cancel_stream(s, height, tx_sender, stream_id, rej1, rej2) ==
    IF stream_id \notin DOMAIN s.streams THEN Rollback(s, Err(ERR_STREAM_NOT_FOUND), <<>>)
    ELSE
      LET stream == s.streams[stream_id]
          sender == stream.sender
          recipient == stream.recipient
          total == stream.total_amount
          withdrawn == stream.withdrawn
          v == calculate_vested_amount(s.streams, stream_id, height)
          vested == v.val
          recipient_amount == vested - withdrawn
          sender_refund == refund_amount(total, vested)
      IN
      IF v.abort \/ ~Fits(recipient_amount) \/ ~Fits(sender_refund)
      THEN Rollback(s, RuntimeError, <<>>)
      ELSE IF tx_sender # sender THEN Rollback(s, Err(ERR_NOT_SENDER), <<>>)
      ELSE IF ~stream.active THEN Rollback(s, Err(ERR_STREAM_NOT_ACTIVE), <<>>)
      ELSE
        LET t1 == transfer_if_positive(s.bal, recipient_amount, recipient, rej1)
            log1 == IF recipient_amount > 0
                    THEN <<<<get_contract_principal, recipient, recipient_amount>>>>
                    ELSE <<>>
        IN
        IF ~t1.ok THEN Rollback(s, Err(t1.err), <<>>)
        ELSE
          LET t2 == transfer_if_positive(t1.bal, sender_refund, sender, rej2)
              log2 == IF sender_refund > 0
                      THEN <<<<get_contract_principal, sender, sender_refund>>>>
                      ELSE <<>>
          IN
          IF ~t2.ok THEN Rollback(s, Err(t2.err), log1)
          ELSE
            [res |-> Ok([recipient_received |-> recipient_amount,
                         sender_refunded |-> sender_refund]),
             st |-> [s EXCEPT !.bal = t2.bal,
                              !.streams = record_cancellation(@, stream_id, vested)],
             log |-> log1 \o log2]

----------------------------------------------------------------------------
\* Read-only functions of the sBTC ledger.

\* (map-get? streams stream-id)
get_stream(strs, stream_id) ==
    IF stream_id \in DOMAIN strs
    THEN [kind |-> "some", val |-> strs[stream_id]]
    ELSE [kind |-> "none", val |-> 0]

get_vested(strs, stream_id, height) ==
    LET v == calculate_vested_amount(strs, stream_id, height)
    IN IF v.abort THEN RuntimeError ELSE Ok(v.val)

\* Faulty variant: what was withdrawn is not deducted.
get_withdrawable_ignores_withdrawn(strs, stream_id, height) ==
    IF stream_id \notin DOMAIN strs THEN Ok(0)
    ELSE
      LET v == calculate_vested_amount(strs, stream_id, height)
      IN
      IF v.abort THEN RuntimeError
      ELSE Ok(v.val)

get_withdrawable(strs, stream_id, height) ==
    IF stream_id \notin DOMAIN strs THEN Ok(0)
    ELSE
      LET v == calculate_vested_amount(strs, stream_id, height)
          withdrawn == strs[stream_id].withdrawn
      IN
      IF v.abort \/ ~Fits(v.val - withdrawn) THEN RuntimeError
      ELSE Ok(v.val - withdrawn)

\* Faulty variant: the progress of what was withdrawn, not of what has vested.
get_stream_progress_of_withdrawn(strs, stream_id, height) ==
    IF stream_id \notin DOMAIN strs THEN Ok(0)
    ELSE
      LET total == strs[stream_id].total_amount
          v == calculate_vested_amount(strs, stream_id, height)
          withdrawn == strs[stream_id].withdrawn
      IN
      IF v.abort THEN RuntimeError
      ELSE IF total = 0 THEN Ok(0)
      ELSE IF ~Fits(withdrawn * 100) THEN RuntimeError
      ELSE Ok((withdrawn * 100) \div total)

get_stream_progress(strs, stream_id, height) ==
    IF stream_id \notin DOMAIN strs THEN Ok(0)
    ELSE
      LET total == strs[stream_id].total_amount
          v == calculate_vested_amount(strs, stream_id, height)
          vested == v.val
      IN
      IF v.abort THEN RuntimeError
      ELSE IF total = 0 THEN Ok(0)
      ELSE IF ~Fits(vested * 100) THEN RuntimeError
      ELSE Ok((vested * 100) \div total)

get_stream_count(nonce) == nonce

----------------------------------------------------------------------------
\* Public functions of the STX ledger, on the state [nonce, streams, snd, rcp, bal]
\* of the stx- maps and the STX balances.

calculate_stx_vested_amount(strs, stream_id, current) ==
    IF stream_id \notin DOMAIN strs THEN Val(0)
    ELSE
      LET stream == strs[stream_id]
          total == stream.total_amount
          start == stream.start_block
          end == stream.end_block
      IN
      IF current <= start THEN Val(0)
      ELSE IF current >= end THEN Val(total)
      ELSE IF ~Fits(total * (current - start)) THEN Overflow
      ELSE Val((total * (current - start)) \div (end - start))

create_stx_stream(s, height, tx_sender, recipient, total_amount, duration_blocks) ==
    LET stream_id == s.nonce
        start_block == height
        end_block == height + duration_blocks
        sender == tx_sender
    IN
    IF ~Fits(end_block) THEN Rollback(s, RuntimeError, <<>>)
    ELSE IF ~(total_amount > 0) THEN Rollback(s, Err(ERR_INVALID_AMOUNT), <<>>)
    ELSE IF ~(duration_blocks > 0) THEN Rollback(s, Err(ERR_INVALID_DURATION), <<>>)
    ELSE
      LET t == stx_transfer(s.bal, total_amount, sender, get_contract_principal)
      IN
      IF ~t.ok THEN Rollback(s, Err(t.err), <<>>)
      ELSE IF ~Fits(stream_id + 1)
      THEN Rollback(s, RuntimeError, <<<<sender, get_contract_principal, total_amount>>>>)
      ELSE
        [res |-> Ok(stream_id),
         st |-> [nonce |-> stream_id + 1,
                 streams |-> (stream_id :> [sender |-> sender,
                                            recipient |-> recipient,
                                            total_amount |-> total_amount,
                                            withdrawn |-> 0,
                                            start_block |-> start_block,
                                            end_block |-> end_block,
                                            active |-> TRUE]) @@ s.streams,
                 snd |-> [s.snd EXCEPT ![sender] = add_to_list(stream_id, @)],
                 rcp |-> [s.rcp EXCEPT ![recipient] = add_to_list(stream_id, @)],
                 bal |-> t.bal],
         log |-> <<<<sender, get_contract_principal, total_amount>>>>]

\* (as-contract? ((with-stx amount)) (try! (stx-transfer? amount tx-sender to))):
\* inside, tx-sender is the contract; the allowance is the amount transferred.
transfer_stx_from_escrow(bal, amount, to) ==
    stx_transfer(bal, amount, get_contract_principal, to)

withdraw_stx(s, height, tx_sender, stream_id) ==
    IF stream_id \notin DOMAIN s.streams THEN Rollback(s, Err(ERR_STREAM_NOT_FOUND), <<>>)
    ELSE
      LET stream == s.streams[stream_id]
          recipient == stream.recipient
          withdrawn == stream.withdrawn
          v == calculate_stx_vested_amount(s.streams, stream_id, height)
          vested == v.val
          available == vested - withdrawn
      IN
      IF v.abort \/ ~Fits(available) THEN Rollback(s, RuntimeError, <<>>)
      ELSE IF tx_sender # recipient THEN Rollback(s, Err(ERR_NOT_RECIPIENT), <<>>)
      ELSE IF ~stream.active THEN Rollback(s, Err(ERR_STREAM_NOT_ACTIVE), <<>>)
      ELSE IF ~(available > 0) THEN Rollback(s, Err(ERR_STREAM_DEPLETED), <<>>)
      ELSE
        LET t == transfer_stx_from_escrow(s.bal, available, recipient)
        IN
        IF ~t.ok THEN Rollback(s, Err(t.err), <<>>)
        ELSE
          [res |-> Ok(available),
           st |-> [s EXCEPT !.bal = t.bal,
                            !.streams[stream_id].withdrawn = vested],
           log |-> <<<<get_contract_principal, recipient, available>>>>]

cancel_stx_stream(s, height, tx_sender, stream_id) ==
    IF stream_id \notin DOMAIN s.streams THEN Rollback(s, Err(ERR_STREAM_NOT_FOUND), <<>>)
    ELSE
      LET stream == s.streams[stream_id]
          sender == stream.sender
          recipient == stream.recipient
          total == stream.total_amount
          withdrawn == stream.withdrawn
          v == calculate_stx_vested_amount(s.streams, stream_id, height)
          vested == v.val
          recipient_amount == vested - withdrawn
          sender_refund == total - vested
      IN
      IF v.abort \/ ~Fits(recipient_amount) \/ ~Fits(sender_refund)
      THEN Rollback(s, RuntimeError, <<>>)
      ELSE IF tx_sender # sender THEN Rollback(s, Err(ERR_NOT_SENDER), <<>>)
      ELSE IF ~stream.active THEN Rollback(s, Err(ERR_STREAM_NOT_ACTIVE), <<>>)
      ELSE
        LET t1 == IF recipient_amount > 0
                  THEN transfer_stx_from_escrow(s.bal, recipient_amount, recipient)
                  ELSE [ok |-> TRUE, err |-> 0, bal |-> s.bal]
            log1 == IF recipient_amount > 0
                    THEN <<<<get_contract_principal, recipient, recipient_amount>>>>
                    ELSE <<>>
        IN
        IF ~t1.ok THEN Rollback(s, Err(t1.err), <<>>)
        ELSE
          LET t2 == IF sender_refund > 0
                    THEN transfer_stx_from_escrow(t1.bal, sender_refund, sender)
                    ELSE [ok |-> TRUE, err |-> 0, bal |-> t1.bal]
              log2 == IF sender_refund > 0
                      THEN <<<<get_contract_principal, sender, sender_refund>>>>
                      ELSE <<>>
          IN
          IF ~t2.ok THEN Rollback(s, Err(t2.err), log1)
          ELSE
            [res |-> Ok([recipient_received |-> recipient_amount,
                         sender_refunded |-> sender_refund]),
             st |-> [s EXCEPT !.bal = t2.bal,
                              !.streams[stream_id].active = FALSE,
                              !.streams[stream_id].withdrawn = vested],
             log |-> log1 \o log2]

----------------------------------------------------------------------------
\* The state machine.

\* The frontend.

RECURSIVE SumOver(_, _)
\* The sum of f[x] over the finite set S.
SumOver(f, S) ==
    IF S = {} THEN 0
    ELSE LET x == CHOOSE y \in S : TRUE IN f[x] + SumOver(f, S \ {x})


\* The amount the transfers of `log` move out of principal `p`.
SentBy(log, p) ==
    SumOver([i \in DOMAIN log |-> log[i][3]], {i \in DOMAIN log : log[i][1] = p})

\* willSendLte(expectedRefund + 1000000n), "buffer for rounding".
RefundBuffer == 1000000

\* A transaction whose post-conditions fail is aborted and changes nothing.
PostConditionAbort == [kind |-> "abort_by_post_condition", val |-> 0]

\* Hooks useStreams and useStream: the status shown for a stream, derived from its
\* record and the current block.
stream_status(stream, currentBlock) ==
    LET isFullyVested == currentBlock >= stream.end_block
    IN
    IF ~stream.active
    THEN IF isFullyVested /\ stream.withdrawn >= stream.total_amount
         THEN "completed"
         ELSE "cancelled"
    ELSE IF isFullyVested /\ stream.withdrawn >= stream.total_amount
    THEN "completed"
    ELSE "active"

\* withdraw of lib/stacks: the contract call under the post-condition that the contract
\* sends at most expectedAmount of the token, in deny mode.
withdraw_tx(s, height, tx_sender, stream_id, expectedAmount, rej) ==
    LET r == withdraw(s, height, tx_sender, stream_id, rej)
    IN
    IF r.res.kind = "ok" /\ ~(SentBy(r.log, get_contract_principal) <= expectedAmount)
    THEN Rollback(s, PostConditionAbort, <<>>)
    ELSE r

\* cancelStream of lib/stacks: the contract call under the post-condition, when
\* expectedRefund > 0, that the contract sends at most expectedRefund + RefundBuffer of
\* the token, in deny mode; without post-condition, in allow mode, otherwise.
cancel_tx(s, height, tx_sender, stream_id, expectedRefund, rej1, rej2) ==
    LET r == cancel_stream(s, height, tx_sender, stream_id, rej1, rej2)
    IN
    IF /\ r.res.kind = "ok"
       /\ expectedRefund > 0
       /\ ~(SentBy(r.log, get_contract_principal) <= expectedRefund + RefundBuffer)
    THEN Rollback(s, PostConditionAbort, <<>>)
    ELSE r

SbtcLedger ==
    [nonce |-> stream_nonce, streams |-> streams, snd |-> sender_streams,
     rcp |-> recipient_streams, bal |-> sbtc_balances]

SetSbtcLedger(st) ==
    /\ stream_nonce' = st.nonce
    /\ streams' = st.streams
    /\ sender_streams' = st.snd
    /\ recipient_streams' = st.rcp
    /\ sbtc_balances' = st.bal

\* `last` when the last step was no call; a stream id no stream has.
NoCall == [op |-> "none", id |-> MaxStreams, res |-> Ok(0), log |-> <<>>]

Init ==
    /\ block_height = 1
    /\ stream_nonce = 0
    /\ streams = <<>>
    /\ sender_streams = [p \in Principals |-> <<>>]
    /\ recipient_streams = [p \in Principals |-> <<>>]
    /\ sbtc_balances = [h \in Holders |-> IF h \in Principals THEN InitBalance ELSE 0]
    /\ stx_stream_nonce = 0
    /\ stx_streams = <<>>
    /\ stx_sender_streams = [p \in Principals |-> <<>>]
    /\ stx_recipient_streams = [p \in Principals |-> <<>>]
    /\ stx_balances = [h \in Holders |-> IF h \in Principals THEN InitBalance ELSE 0]
    /\ last = NoCall

\* A new block is mined.
AdvanceBlock ==
    /\ block_height < MaxHeight
    /\ block_height' = block_height + 1
    /\ last' = NoCall
    /\ UNCHANGED <<sbtc_vars, stx_vars>>

CreateStream(tx_sender, recipient, total_amount, duration_blocks, rej) ==
    LET r == create_stream(SbtcLedger, block_height, tx_sender, recipient,
                           total_amount, duration_blocks, rej)
    IN
    /\ SetSbtcLedger(r.st)
    /\ last' = [op |-> "create-stream", id |-> stream_nonce, res |-> r.res,
                log |-> r.log]
    /\ UNCHANGED <<block_height, stx_vars>>

Withdraw(tx_sender, stream_id, rej) ==
    LET r == withdraw(SbtcLedger, block_height, tx_sender, stream_id, rej)
    IN
    /\ SetSbtcLedger(r.st)
    /\ last' = [op |-> "withdraw", id |-> stream_id, res |-> r.res,
                log |-> r.log]
    /\ UNCHANGED <<block_height, stx_vars>>

CancelStream(tx_sender, stream_id, rej1, rej2) ==
    LET r == cancel_stream(SbtcLedger, block_height, tx_sender, stream_id, rej1, rej2)
    IN
    /\ SetSbtcLedger(r.st)
    /\ last' = [op |-> "cancel-stream", id |-> stream_id, res |-> r.res,
                log |-> r.log]
    /\ UNCHANGED <<block_height, stx_vars>>

StxLedger ==
    [nonce |-> stx_stream_nonce, streams |-> stx_streams, snd |-> stx_sender_streams,
     rcp |-> stx_recipient_streams, bal |-> stx_balances]

SetStxLedger(st) ==
    /\ stx_stream_nonce' = st.nonce
    /\ stx_streams' = st.streams
    /\ stx_sender_streams' = st.snd
    /\ stx_recipient_streams' = st.rcp
    /\ stx_balances' = st.bal

CreateStxStream(tx_sender, recipient, total_amount, duration_blocks) ==
    LET r == create_stx_stream(StxLedger, block_height, tx_sender, recipient,
                               total_amount, duration_blocks)
    IN
    /\ SetStxLedger(r.st)
    /\ last' = [op |-> "create-stx-stream", id |-> stx_stream_nonce, res |-> r.res,
                log |-> r.log]
    /\ UNCHANGED <<block_height, sbtc_vars>>

WithdrawStx(tx_sender, stream_id) ==
    LET r == withdraw_stx(StxLedger, block_height, tx_sender, stream_id)
    IN
    /\ SetStxLedger(r.st)
    /\ last' = [op |-> "withdraw-stx", id |-> stream_id, res |-> r.res,
                log |-> r.log]
    /\ UNCHANGED <<block_height, sbtc_vars>>

CancelStxStream(tx_sender, stream_id) ==
    LET r == cancel_stx_stream(StxLedger, block_height, tx_sender, stream_id)
    IN
    /\ SetStxLedger(r.st)
    /\ last' = [op |-> "cancel-stx-stream", id |-> stream_id, res |-> r.res,
                log |-> r.log]
    /\ UNCHANGED <<block_height, sbtc_vars>>

\* A read-only call: the response is observed, nothing changes.
ReadOnly(op, stream_id, res) ==
    /\ last' = [op |-> op, id |-> stream_id, res |-> res, log |-> <<>>]
    /\ UNCHANGED <<block_height, sbtc_vars, stx_vars>>

GetStream(stream_id) ==
    ReadOnly("get-stream", stream_id, get_stream(streams, stream_id))

GetVested(stream_id) ==
    ReadOnly("get-vested", stream_id, get_vested(streams, stream_id, block_height))

GetWithdrawable(stream_id) ==
    ReadOnly("get-withdrawable", stream_id,
             get_withdrawable(streams, stream_id, block_height))

GetStreamProgress(stream_id) ==
    ReadOnly("get-stream-progress", stream_id,
             get_stream_progress(streams, stream_id, block_height))

GetStreamCount ==
    ReadOnly("get-stream-count", stream_nonce, Ok(get_stream_count(stream_nonce)))

\* A run creates at most MaxStreams streams.
WithinMax == stream_nonce + stx_stream_nonce <= MaxStreams

\* Stream ids a call is tried with: the existing ones and the next, which does not exist.
StreamIds == 0..stream_nonce
StxStreamIds == 0..stx_stream_nonce

\* The calls of the sBTC ledger.
SbtcCall ==
    \/ \E c \in Senders, r \in Recipients, a \in Amounts, d \in Durations,
          rej \in TokenRejections :
          CreateStream(c, r, a, d, rej) /\ WithinMax'
    \/ \E c \in Principals, id \in StreamIds, rej \in TokenRejections :
          Withdraw(c, id, rej)
    \/ \E c \in Principals, id \in StreamIds, rej1 \in TokenRejections,
          rej2 \in TokenRejections :
          CancelStream(c, id, rej1, rej2)

\* The calls of the STX ledger.
StxCall ==
    \/ \E c \in Senders, r \in Recipients, a \in Amounts, d \in Durations :
          CreateStxStream(c, r, a, d) /\ WithinMax'
    \/ \E c \in Principals, id \in StxStreamIds :
          WithdrawStx(c, id)
    \/ \E c \in Principals, id \in StxStreamIds :
          CancelStxStream(c, id)

\* The sBTC ledger on its own.
Next ==
    \/ AdvanceBlock
    \/ SbtcCall

Spec == Init /\ [][Next]_vars

\* The STX ledger on its own.
NextStx ==
    \/ AdvanceBlock
    \/ StxCall

SpecStx == Init /\ [][NextStx]_vars

\* Both ledgers of the contract.  The ledgers share no state but the block height.
\* Streams created in one run of the two ledgers together.
MaxStreamsBoth == 1

WithinBoth == stream_nonce + stx_stream_nonce <= MaxStreamsBoth

NextBoth ==
    /\ \/ AdvanceBlock
       \/ SbtcCall
       \/ StxCall
    /\ WithinBoth'

SpecBoth == Init /\ [][NextBoth]_vars

\* Both ledgers driven by the same calls: every call is made on the sBTC ledger, whose
\* token accepts it, and on the STX ledger in the same block.  `last` holds the sBTC
\* response.  Streams are created with the largest amount and duration; what a create
\* with any other arguments returns is compared in every state.
TwinCreateStream(tx_sender, recipient, total_amount, duration_blocks) ==
    LET x == create_stream(SbtcLedger, block_height, tx_sender, recipient,
                           total_amount, duration_blocks, 0)
        y == create_stx_stream(StxLedger, block_height, tx_sender, recipient,
                               total_amount, duration_blocks)
    IN
    /\ SetSbtcLedger(x.st)
    /\ SetStxLedger(y.st)
    /\ last' = [op |-> "create-stream, create-stx-stream", id |-> stream_nonce,
                res |-> x.res, log |-> x.log]
    /\ UNCHANGED block_height

TwinWithdraw(tx_sender, stream_id) ==
    LET x == withdraw(SbtcLedger, block_height, tx_sender, stream_id, 0)
        y == withdraw_stx(StxLedger, block_height, tx_sender, stream_id)
    IN
    /\ SetSbtcLedger(x.st)
    /\ SetStxLedger(y.st)
    /\ last' = [op |-> "withdraw, withdraw-stx", id |-> stream_id,
                res |-> x.res, log |-> x.log]
    /\ UNCHANGED block_height

TwinCancelStream(tx_sender, stream_id) ==
    LET x == cancel_stream(SbtcLedger, block_height, tx_sender, stream_id, 0, 0)
        y == cancel_stx_stream(StxLedger, block_height, tx_sender, stream_id)
    IN
    /\ SetSbtcLedger(x.st)
    /\ SetStxLedger(y.st)
    /\ last' = [op |-> "cancel-stream, cancel-stx-stream", id |-> stream_id,
                res |-> x.res, log |-> x.log]
    /\ UNCHANGED block_height

TwinOps == {"create-stream, create-stx-stream", "withdraw, withdraw-stx",
            "cancel-stream, cancel-stx-stream"}

WithinTwin == stream_nonce <= MaxStreams /\ stx_stream_nonce <= MaxStreams

TwinCall ==
    \/ \E c \in Senders, r \in Recipients :
          TwinCreateStream(c, r, MaxAmount, MaxDuration) /\ WithinTwin'
    \/ \E c \in Principals, id \in StreamIds : TwinWithdraw(c, id)
    \/ \E c \in Principals, id \in StreamIds : TwinCancelStream(c, id)

\* The two ledgers in step from the start, or, while at most MaxStreamsBoth streams
\* exist, each called on its own.
NextTwin ==
    \/ AdvanceBlock
    \/ SbtcLedger = StxLedger /\ TwinCall
    \/ (SbtcCall \/ StxCall) /\ WithinBoth'

SpecTwin == Init /\ [][NextTwin]_vars

\* cancel-stream as in CancelStream; of an ok response `last` keeps the amount the
\* recipient received, a uint like the value of every other response, so that the
\* responses of a run can be compared with each other.
CancelStreamLive(tx_sender, stream_id, rej1, rej2) ==
    LET r == cancel_stream(SbtcLedger, block_height, tx_sender, stream_id, rej1, rej2)
    IN
    /\ SetSbtcLedger(r.st)
    /\ last' = [op |-> "cancel-stream", id |-> stream_id,
                res |-> IF r.res.kind = "ok" THEN Ok(r.res.val.recipient_received)
                        ELSE r.res,
                log |-> r.log]
    /\ UNCHANGED <<block_height, stx_vars>>

\* The sBTC ledger with blocks that keep coming and recipients that keep withdrawing.
\* Streams are created by one sender, to end by the last block height of the run.
LiveCall ==
    \/ \E c \in {"wallet_1"}, r \in Recipients, a \in Amounts, d \in Durations,
          rej \in TokenRejections :
          /\ block_height + d <= MaxHeight
          /\ CreateStream(c, r, a, d, rej)
          /\ WithinMax'
    \/ \E c \in Principals, id \in StreamIds, rej \in TokenRejections :
          Withdraw(c, id, rej)
    \/ \E c \in Principals, id \in StreamIds, rej1 \in TokenRejections,
          rej2 \in TokenRejections :
          CancelStreamLive(c, id, rej1, rej2)

\* The step of AdvanceBlock, on the block height alone.
BlockAdvances ==
    /\ block_height < MaxHeight
    /\ block_height' = block_height + 1

\* The step of a withdraw by the recipient of stream `stream_id` that pays, the token
\* accepting the transfer, on the ledger alone.
RecipientWithdraws(stream_id) ==
    /\ stream_id \in DOMAIN streams
    /\ LET r == withdraw(SbtcLedger, block_height, streams[stream_id].recipient,
                         stream_id, 0)
       IN
       /\ r.res.kind = "ok"
       /\ SetSbtcLedger(r.st)

NextLive ==
    \/ AdvanceBlock
    \/ LiveCall

\* A new block keeps coming, and a withdraw that would pay is eventually made.
Fairness ==
    /\ WF_block_height(BlockAdvances)
    /\ \A id \in 0..(MaxStreams - 1) : WF_sbtc_vars(RecipientWithdraws(id))

SpecLive == Init /\ [][NextLive]_vars /\ Fairness

\* The sBTC ledger with streams of more than the frontend's refund buffer: one sender
\* holding two large streams' worth creates streams of LargeAmount or of 2 units.
LargeAmount == 2000002

InitLarge ==
    /\ block_height = 1
    /\ stream_nonce = 0
    /\ streams = <<>>
    /\ sender_streams = [p \in Principals |-> <<>>]
    /\ recipient_streams = [p \in Principals |-> <<>>]
    /\ sbtc_balances = [h \in Holders |-> IF h = "wallet_1" THEN 2 * LargeAmount ELSE 0]
    /\ stx_stream_nonce = 0
    /\ stx_streams = <<>>
    /\ stx_sender_streams = [p \in Principals |-> <<>>]
    /\ stx_recipient_streams = [p \in Principals |-> <<>>]
    /\ stx_balances = [h \in Holders |-> 0]
    /\ last = NoCall

LargeCall ==
    \/ \E a \in {2, LargeAmount} :
          CreateStream("wallet_1", "wallet_2", a, MaxDuration, 0) /\ WithinMax'
    \/ \E c \in Principals, id \in StreamIds : Withdraw(c, id, 0)
    \/ \E c \in Principals, id \in StreamIds : CancelStream(c, id, 0, 0)

NextLarge ==
    \/ AdvanceBlock
    \/ LargeCall

SpecLarge == InitLarge /\ [][NextLarge]_vars

\* The sBTC ledger with one well-funded sender, for the vesting arithmetic: amounts up
\* to VestBalance over durations up to VestDuration, and the read-only functions.
VestBalance == 7
VestDuration == 3
MaxVestStreams == 1

InitVesting ==
    /\ block_height = 1
    /\ stream_nonce = 0
    /\ streams = <<>>
    /\ sender_streams = [p \in Principals |-> <<>>]
    /\ recipient_streams = [p \in Principals |-> <<>>]
    /\ sbtc_balances = [h \in Holders |-> IF h = "wallet_1" THEN VestBalance ELSE 0]
    /\ stx_stream_nonce = 0
    /\ stx_streams = <<>>
    /\ stx_sender_streams = [p \in Principals |-> <<>>]
    /\ stx_recipient_streams = [p \in Principals |-> <<>>]
    /\ stx_balances = [h \in Holders |-> 0]
    /\ last = NoCall

VestingCall ==
    \/ \E a \in 0..VestBalance, d \in 0..VestDuration, rej \in TokenRejections :
          CreateStream("wallet_1", "wallet_2", a, d, rej) /\ WithinMax'
    \/ \E c \in Principals, id \in StreamIds, rej \in TokenRejections :
          Withdraw(c, id, rej)
    \/ \E c \in Principals, id \in StreamIds, rej1 \in TokenRejections,
          rej2 \in TokenRejections :
          CancelStream(c, id, rej1, rej2)
    \/ \E id \in StreamIds : GetStream(id)
    \/ \E id \in StreamIds : GetVested(id)
    \/ \E id \in StreamIds : GetWithdrawable(id)
    \/ \E id \in StreamIds : GetStreamProgress(id)
    \/ GetStreamCount

NextVesting ==
    /\ \/ AdvanceBlock
       \/ VestingCall
    /\ stream_nonce' <= MaxVestStreams

SpecVesting == InitVesting /\ [][NextVesting]_vars

\* The sBTC ledger with a sender who holds as much as a uint can represent, for the
\* limits of the uint arithmetic.
OverflowTotals == {1, 2^(UintBits - 1), UintMax}
OverflowDurations == {VestDuration, UintMax}

InitOverflow ==
    /\ block_height = 1
    /\ stream_nonce = 0
    /\ streams = <<>>
    /\ sender_streams = [p \in Principals |-> <<>>]
    /\ recipient_streams = [p \in Principals |-> <<>>]
    /\ sbtc_balances = [h \in Holders |-> IF h = "wallet_1" THEN UintMax ELSE 0]
    /\ stx_stream_nonce = 0
    /\ stx_streams = <<>>
    /\ stx_sender_streams = [p \in Principals |-> <<>>]
    /\ stx_recipient_streams = [p \in Principals |-> <<>>]
    /\ stx_balances = [h \in Holders |-> 0]
    /\ last = NoCall

OverflowCall ==
    \/ \E a \in OverflowTotals, d \in OverflowDurations :
          CreateStream("wallet_1", "wallet_2", a, d, 0) /\ WithinMax'
    \/ \E id \in StreamIds : Withdraw("wallet_2", id, 0)
    \/ \E id \in StreamIds : CancelStream("wallet_1", id, 0, 0)
    \/ \E id \in StreamIds : GetVested(id)
    \/ \E id \in StreamIds : GetWithdrawable(id)

NextOverflow ==
    \/ AdvanceBlock
    \/ OverflowCall

SpecOverflow == InitOverflow /\ [][NextOverflow]_vars

\* The sBTC ledger after wallet_1 has created MaxListLen streams of 1 unit to wallet_2
\* in the first block: wallet_1's outgoing list and wallet_2's incoming list are full.
InitFullIndex ==
    /\ block_height = 1
    /\ stream_nonce = MaxListLen
    /\ streams = [id \in 0..(MaxListLen - 1) |->
                     new_stream("wallet_1", "wallet_2", 1, 1, 1 + MaxDuration)]
    /\ sender_streams =
           [p \in Principals |->
               IF p = "wallet_1" THEN [i \in 1..MaxListLen |-> i - 1] ELSE <<>>]
    /\ recipient_streams =
           [p \in Principals |->
               IF p = "wallet_2" THEN [i \in 1..MaxListLen |-> i - 1] ELSE <<>>]
    /\ sbtc_balances = [h \in Holders |-> IF h = get_contract_principal THEN MaxListLen
                                          ELSE IF h = "wallet_2" THEN 0
                                          ELSE InitBalance]
    /\ stx_stream_nonce = 0
    /\ stx_streams = <<>>
    /\ stx_sender_streams = [p \in Principals |-> <<>>]
    /\ stx_recipient_streams = [p \in Principals |-> <<>>]
    /\ stx_balances = [h \in Holders |-> 0]
    /\ last = NoCall

\* Streams created in one run after the lists are full.
MaxUnlisted == 1

\* The ids the calls are tried with: one of the listed streams, the streams created
\* after the lists were full, and the next id.
FullIndexIds == {0} \cup (MaxListLen..stream_nonce)

FullIndexCall ==
    \/ \E c \in {"wallet_1", "wallet_3"}, r \in Principals :
          /\ CreateStream(c, r, 1, MaxDuration, 0)
          /\ stream_nonce' <= MaxListLen + MaxUnlisted
    \/ \E c \in Principals, id \in FullIndexIds : Withdraw(c, id, 0)
    \/ \E c \in {"wallet_1", "wallet_3"}, id \in FullIndexIds : CancelStream(c, id, 0, 0)
    \/ \E id \in FullIndexIds : GetStream(id)

NextFullIndex ==
    \/ AdvanceBlock
    \/ FullIndexCall

SpecFullIndex == InitFullIndex /\ [][NextFullIndex]_vars

----------------------------------------------------------------------------
\* Properties.

\* What the pool still owes on the streams `strs`: total-amount less withdrawn, over
\* the active ones.
Owed(strs) ==
    SumOver([id \in DOMAIN strs |-> strs[id].total_amount - strs[id].withdrawn],
            {id \in DOMAIN strs : strs[id].active})

\* The vested amount of sBTC stream `id` at the current block.
VestedNow(id) == calculate_vested_amount(streams, id, block_height)

\* C1: in every reachable state every stored stream has
\* 0 <= withdrawn <= vested(current block) <= total-amount.
C1_WithdrawnWithinVested ==
    \A id \in DOMAIN streams :
        /\ ~VestedNow(id).abort
        /\ 0 <= streams[id].withdrawn
        /\ streams[id].withdrawn <= VestedNow(id).val
        /\ VestedNow(id).val <= streams[id].total_amount

\* A withdraw has paid out part of a stream that is still vesting.
C1_Witness ==
    /\ last.op = "withdraw"
    /\ last.res.kind = "ok"
    /\ streams[last.id].withdrawn > 0
    /\ streams[last.id].withdrawn < streams[last.id].total_amount
    /\ streams[last.id].withdrawn = VestedNow(last.id).val

\* C2: the sBTC the contract holds is what it owes on the active streams (total-amount
\* less withdrawn each; nothing for a cancelled or a fully withdrawn stream), and the
\* sBTC of all holders together stays what it was: none is created or lost.
C2_PoolIsOwed ==
    /\ sbtc_balances[get_contract_principal] = Owed(streams)
    /\ SumOver(sbtc_balances, Holders) = Cardinality(Principals) * InitBalance

\* Two streams, one cancelled and one partly withdrawn and active, the pool holding
\* the rest of the second.
C2_Witness ==
    /\ \E id \in DOMAIN streams : ~streams[id].active
    /\ \E id \in DOMAIN streams :
           /\ streams[id].active
           /\ streams[id].withdrawn > 0
           /\ streams[id].withdrawn < streams[id].total_amount
    /\ sbtc_balances[get_contract_principal] > 0

\* The sBTC balances after `paid` leaves the pool for `to`.
PaidOut(bal, to, paid) ==
    [h \in Holders |->
        bal[h] + (IF h = to THEN paid ELSE 0)
               - (IF h = get_contract_principal THEN paid ELSE 0)]

\* The last call was `op` and returned ok.
Succeeded(op) == last.op = op /\ last.res.kind = "ok"

\* A successful withdraw returns vested - withdrawn and moves exactly that from the
\* pool to the recipient.
C3_FirstPays ==
    (last'.op = "withdraw" /\ last'.res.kind = "ok") =>
        LET id == last'.id
            paid == VestedNow(id).val - streams[id].withdrawn
        IN
        /\ last'.res.val = paid
        /\ sbtc_balances' = PaidOut(sbtc_balances, streams[id].recipient, paid)

\* Right after a successful withdraw, at the same block, a withdraw of the recipient on
\* the same stream returns ERR-STREAM-DEPLETED, transfers nothing, changes nothing.
C3_SecondDepleted ==
    Succeeded("withdraw") =>
        \A rej \in TokenRejections :
            withdraw(SbtcLedger, block_height, streams[last.id].recipient, last.id, rej)
                = Rollback(SbtcLedger, Err(ERR_STREAM_DEPLETED), <<>>)

\* Two withdraws in a row on one stream at one block are never both paid.
C3_NotPaidTwice ==
    (Succeeded("withdraw") /\ last'.op = "withdraw" /\ last'.id = last.id) =>
        /\ last'.res.kind # "ok"
        /\ last'.log = <<>>
        /\ UNCHANGED sbtc_vars

\* C3: of two withdraws of the recipient on one stream at one block height, the first
\* (if it succeeds) pays vested - withdrawn; the second fails with ERR-STREAM-DEPLETED,
\* transfers nothing and leaves the record unchanged.
C3_NoDoubleWithdraw ==
    /\ []C3_SecondDepleted
    /\ [][C3_FirstPays /\ C3_NotPaidTwice]_vars

\* The second withdraw was made: the stream, still vesting, has paid out what has
\* vested at this block, and the call returned ERR-STREAM-DEPLETED.
C3_Witness ==
    /\ last.op = "withdraw"
    /\ IsErr(last.res, ERR_STREAM_DEPLETED)
    /\ streams[last.id].active
    /\ streams[last.id].withdrawn > 0
    /\ streams[last.id].withdrawn = VestedNow(last.id).val
    /\ block_height < streams[last.id].end_block

\* A cancelled stream: after a successful cancel the stream is not active, and on a
\* stream that is not active the recipient's withdraw and the sender's cancel return
\* ERR-STREAM-NOT-ACTIVE.
C4_CancelledRejects ==
    /\ Succeeded("cancel-stream") => ~streams[last.id].active
    /\ \A id \in DOMAIN streams :
           ~streams[id].active =>
               /\ \A rej \in TokenRejections :
                      withdraw(SbtcLedger, block_height, streams[id].recipient, id, rej)
                          = Rollback(SbtcLedger, Err(ERR_STREAM_NOT_ACTIVE), <<>>)
               /\ \A rej1 \in TokenRejections, rej2 \in TokenRejections :
                      cancel_stream(SbtcLedger, block_height, streams[id].sender, id,
                                    rej1, rej2)
                          = Rollback(SbtcLedger, Err(ERR_STREAM_NOT_ACTIVE), <<>>)

\* No step makes a stream that is not active active again.
C4_StaysInactive ==
    \A id \in DOMAIN streams : ~streams[id].active => ~streams'[id].active

\* C4: once cancel succeeds on a stream, active is false in every later state, and
\* every later withdraw by the recipient and cancel by the sender fail with
\* ERR-STREAM-NOT-ACTIVE.
C4_CancelIsPermanent ==
    /\ []C4_CancelledRejects
    /\ [][C4_StaysInactive]_vars

\* A withdraw on a cancelled stream was turned down with ERR-STREAM-NOT-ACTIVE.
C4_Witness ==
    /\ last.op = "withdraw"
    /\ IsErr(last.res, ERR_STREAM_NOT_ACTIVE)
    /\ ~streams[last.id].active

\* C5: a successful cancel at block b returns recipient-received = vested(b) - withdrawn
\* and sender-refunded = total-amount - vested(b), moves exactly these from the pool to
\* the recipient and the sender, and the two with what was withdrawn before make up
\* total-amount.
C5_CancelSplit ==
    (last'.op = "cancel-stream" /\ last'.res.kind = "ok") =>
        LET id == last'.id
            stream == streams[id]
            vested == VestedNow(id).val
            got == last'.res.val
        IN
        /\ stream.active
        /\ got.recipient_received = vested - stream.withdrawn
        /\ got.sender_refunded = stream.total_amount - vested
        /\ got.recipient_received + got.sender_refunded + stream.withdrawn
               = stream.total_amount
        /\ stream.withdrawn = 0 =>
               got.recipient_received + got.sender_refunded = stream.total_amount
        /\ sbtc_balances' =
               PaidOut(PaidOut(sbtc_balances, stream.recipient, got.recipient_received),
                       stream.sender, got.sender_refunded)

C5_CancelSplitsExactly == [][C5_CancelSplit]_vars

\* A cancel part way through paid both the recipient and the sender.
C5_Witness ==
    /\ Succeeded("cancel-stream")
    /\ last.res.val.recipient_received > 0
    /\ last.res.val.sender_refunded > 0
    /\ Len(last.log) = 2

\* A successful cancel leaves withdrawn at the amount vested at its block.
C6_CancelSetsWithdrawn ==
    Succeeded("cancel-stream") =>
        streams[last.id].withdrawn = VestedNow(last.id).val

\* The record of a stream that is not active no longer changes, and a withdraw or a
\* cancel on it moves nothing.
C6_Frozen ==
    \A id \in DOMAIN streams :
        ~streams[id].active =>
            /\ streams'[id] = streams[id]
            /\ (last'.id = id /\ last'.op \in {"withdraw", "cancel-stream"}) =>
                   /\ sbtc_balances' = sbtc_balances
                   /\ last'.log = <<>>

\* C6: after a cancel at block c the stream's withdrawn stays vested(c) in every later
\* state, and no later operation moves anything out of the pool for that stream.
C6_FrozenAfterCancel ==
    /\ []C6_CancelSetsWithdrawn
    /\ [][C6_Frozen]_vars

\* Blocks after the cancel more would have vested, the record still holds the amount
\* vested at the cancel, and a withdraw was turned down.
C6_Witness ==
    /\ last.op = "withdraw"
    /\ last.res.kind = "err"
    /\ last.id \in DOMAIN streams
    /\ ~streams[last.id].active
    /\ streams[last.id].withdrawn > 0
    /\ streams[last.id].withdrawn < VestedNow(last.id).val

\* C7: every create, withdraw or cancel call that returns an error (or aborts) leaves
\* the whole ledger as before the call: records, id counter, both indexes and all
\* balances.
C7_FailedCallChangesNothing ==
    [][(last'.op # "none" /\ last'.res.kind # "ok") =>
           UNCHANGED <<sbtc_vars, stx_vars>>]_vars

\* A create was turned down at the escrow transfer while the ledger already held a
\* stream and a pool balance.
C7_Witness ==
    /\ last.op = "create-stream"
    /\ last.res.kind = "err"
    /\ last.res.val \notin {ERR_INVALID_AMOUNT, ERR_INVALID_DURATION}
    /\ stream_nonce > 0
    /\ sbtc_balances[get_contract_principal] > 0

CancelOps == {"cancel-stream", "cancel-stx-stream"}

\* A cancel of the sender on an active stream whose recipient transfer succeeds and
\* whose refund is rejected returns the error with the state as before the call.
C8_RefundFailureAborts ==
    \A id \in DOMAIN streams :
        \A rej2 \in TokenRejections \ {0} :
            LET r == cancel_stream(SbtcLedger, block_height, streams[id].sender, id,
                                   0, rej2)
            IN
            (/\ streams[id].active
             /\ VestedNow(id).val > streams[id].withdrawn
             /\ streams[id].total_amount > VestedNow(id).val) =>
                /\ r.res = Err(rej2)
                /\ r.st = SbtcLedger
                /\ Len(r.log) = 1

\* A cancel step either succeeds and leaves the stream inactive, or changes no record
\* and no balance of either ledger.
C8_CancelStep ==
    last'.op \in CancelOps =>
        IF last'.res.kind = "ok"
        THEN IF last'.op = "cancel-stream"
             THEN ~streams'[last'.id].active
             ELSE ~stx_streams'[last'.id].active
        ELSE UNCHANGED <<sbtc_vars, stx_vars>>

\* C8: in cancel, when the recipient transfer succeeds and the refund to the sender
\* fails, the whole call aborts: the recipient transfer is not kept and the record
\* stays active with withdrawn unchanged; no cancel pays the recipient and leaves the
\* stream active.
C8_CancelAllOrNothing ==
    /\ []C8_RefundFailureAborts
    /\ [][C8_CancelStep]_vars

\* A cancel had executed the recipient transfer when the refund failed; the stream is
\* still active.
C8_Witness ==
    /\ last.op = "cancel-stream"
    /\ last.res.kind = "err"
    /\ Len(last.log) = 1
    /\ last.log[1][2] = streams[last.id].recipient
    /\ streams[last.id].active

\* C9: a create with total-amount > 0 and duration-blocks > 0 whose escrow transfer
\* fails returns ERR-TRANSFER-FAILED.
C9_EscrowFailureIsTransferFailed ==
    (/\ last.op = "create-stream"
     /\ last.res.kind = "err"
     /\ last.res.val \notin {ERR_INVALID_AMOUNT, ERR_INVALID_DURATION})
        => IsErr(last.res, ERR_TRANSFER_FAILED)

\* C10: for every existing stream in any state at any block, a withdraw by a caller
\* other than the recipient returns ERR-NOT-RECIPIENT and a cancel by a caller other
\* than the sender returns ERR-NOT-SENDER, with no transfer and no change.
C10_OnlyPartiesAct ==
    \A id \in DOMAIN streams :
        \A caller \in Holders :
            /\ caller # streams[id].recipient =>
                   \A rej \in TokenRejections :
                       withdraw(SbtcLedger, block_height, caller, id, rej)
                           = Rollback(SbtcLedger, Err(ERR_NOT_RECIPIENT), <<>>)
            /\ caller # streams[id].sender =>
                   \A rej1 \in TokenRejections, rej2 \in TokenRejections :
                       cancel_stream(SbtcLedger, block_height, caller, id, rej1, rej2)
                           = Rollback(SbtcLedger, Err(ERR_NOT_SENDER), <<>>)

\* A withdraw on a cancelled stream by someone other than its recipient was turned
\* down with ERR-NOT-RECIPIENT.
C10_Witness ==
    /\ last.op = "withdraw"
    /\ IsErr(last.res, ERR_NOT_RECIPIENT)
    /\ ~streams[last.id].active


\* C11: from one state to the next, over every call and block advance, the withdrawn
\* field of no stream decreases.
C11_WithdrawnNeverDecreases ==
    [][\A id \in DOMAIN streams :
           /\ id \in DOMAIN streams'
           /\ streams'[id].withdrawn >= streams[id].withdrawn]_vars

\* withdrawn has grown twice: by a withdraw, and then by the cancel that paid the rest
\* of what had vested.
C11_Witness ==
    /\ Succeeded("cancel-stream")
    /\ last.res.val.recipient_received > 0
    /\ streams[last.id].withdrawn > last.res.val.recipient_received


\* Block heights the vesting function is evaluated at: before, within and after every
\* stream of a run.
VestHeights == 0..(MaxHeight + 1)

\* C12: for a stream with total > 0 and start < end, the vested amount is 0 at
\* now <= start, total at now >= end, within [0, total] at every now, and
\* non-decreasing in now.
C12_VestedShape ==
    \A id \in DOMAIN streams :
        LET stream == streams[id]
            vested(now) == calculate_vested_amount(streams, id, now)
        IN
        /\ stream.total_amount > 0
        /\ stream.start_block < stream.end_block
        /\ \A now \in VestHeights :
               /\ ~vested(now).abort
               /\ now <= stream.start_block => vested(now).val = 0
               /\ now >= stream.end_block => vested(now).val = stream.total_amount
               /\ 0 <= vested(now).val
               /\ vested(now).val <= stream.total_amount
        /\ \A now1 \in VestHeights, now2 \in VestHeights :
               now1 <= now2 => vested(now1).val <= vested(now2).val

\* get-vested was called part way through a stream and returned an amount strictly
\* between 0 and the total, which the division rounded down.
C12_Witness ==
    /\ last.op = "get-vested"
    /\ last.id \in DOMAIN streams
    /\ streams[last.id].start_block < block_height
    /\ block_height < streams[last.id].end_block
    /\ last.res.kind = "ok"
    /\ 0 < last.res.val
    /\ last.res.val < streams[last.id].total_amount
    /\ (streams[last.id].total_amount * (block_height - streams[last.id].start_block))
           % (streams[last.id].end_block - streams[last.id].start_block) # 0

\* v is the quotient of num by den rounded down.
IsFloor(v, num, den) == v * den <= num /\ num < (v + 1) * den

\* Strictly within a stream the vested amount, as get-vested returns it at the current
\* block, is floor(total * (now - start) / (end - start)).
C13_GetVestedIsFloor ==
    \A id \in DOMAIN streams :
        LET stream == streams[id]
            span == stream.end_block - stream.start_block
        IN
        /\ \A now \in VestHeights :
               (stream.start_block < now /\ now < stream.end_block) =>
                   LET v == calculate_vested_amount(streams, id, now)
                   IN
                   /\ ~v.abort
                   /\ IsFloor(v.val, stream.total_amount * (now - stream.start_block), span)
        /\ (stream.start_block < block_height /\ block_height < stream.end_block) =>
               /\ get_vested(streams, id, block_height).kind = "ok"
               /\ IsFloor(get_vested(streams, id, block_height).val,
                          stream.total_amount * (block_height - stream.start_block), span)

\* Strictly within a stream a successful withdraw leaves withdrawn, and a successful
\* cancel leaves withdrawn and returns sender-refunded, according to that amount.
C13_UsedByCalls ==
    (/\ last'.op \in {"withdraw", "cancel-stream"}
     /\ last'.res.kind = "ok"
     /\ streams[last'.id].start_block < block_height
     /\ block_height < streams[last'.id].end_block) =>
        LET stream == streams[last'.id]
            num == stream.total_amount * (block_height - stream.start_block)
            span == stream.end_block - stream.start_block
        IN
        /\ IsFloor(streams'[last'.id].withdrawn, num, span)
        /\ last'.op = "withdraw" =>
               IsFloor(last'.res.val + stream.withdrawn, num, span)
        /\ last'.op = "cancel-stream" =>
               /\ IsFloor(last'.res.val.recipient_received + stream.withdrawn, num, span)
               /\ IsFloor(stream.total_amount - last'.res.val.sender_refunded, num, span)

\* C13: for start < now < end the vested amount returned by get-vested, and used by
\* withdraw and cancel, is exactly floor(total * (now - start) / (end - start)).
C13_VestedIsFloor ==
    /\ []C13_GetVestedIsFloor
    /\ [][C13_UsedByCalls]_vars

\* The exact linear midpoint: half of an even total at half of the duration, returned
\* by get-vested.
C13_Witness ==
    /\ last.op = "get-vested"
    /\ last.id \in DOMAIN streams
    /\ streams[last.id].total_amount = 6
    /\ streams[last.id].end_block - streams[last.id].start_block = 2
    /\ block_height = streams[last.id].start_block + 1
    /\ last.res = Ok(3)


\* C14: for every stream create accepted and every block height strictly between its
\* start and its end, the product total * (now - start) is representable, and
\* get-vested, withdraw and cancel do not abort.
C14_NoOverflow ==
    /\ \A id \in DOMAIN streams :
           \A now \in VestHeights :
               (streams[id].start_block < now /\ now < streams[id].end_block) =>
                   /\ Fits(streams[id].total_amount * (now - streams[id].start_block))
                   /\ ~calculate_vested_amount(streams, id, now).abort
    /\ last.op \in {"get-vested", "get-withdrawable", "withdraw", "cancel-stream"} =>
           last.res.kind # "abort"


\* Durations and amounts a create call may be given, up to the largest uint.
AnyDurations == {0, 1, MaxDuration, UintMax}
AnyAmounts == {1, MaxAmount, UintMax}

\* C15: create with total-amount = 0 returns ERR-INVALID-AMOUNT for every caller,
\* recipient and duration, and leaves records, indexes, balances and the id counter
\* unchanged.
C15_ZeroAmountIsInvalidAmount ==
    \A caller \in Principals, recipient \in Principals, d \in AnyDurations,
       rej \in TokenRejections :
        create_stream(SbtcLedger, block_height, caller, recipient, 0, d, rej)
            = Rollback(SbtcLedger, Err(ERR_INVALID_AMOUNT), <<>>)

\* C16: create with duration-blocks = 0 and total-amount > 0 returns
\* ERR-INVALID-DURATION and leaves records, indexes, balances and the id counter
\* unchanged; no stored stream has end-block = start-block.
C16_ZeroDurationIsInvalidDuration ==
    /\ \A caller \in Principals, recipient \in Principals, a \in AnyAmounts,
          rej \in TokenRejections :
           create_stream(SbtcLedger, block_height, caller, recipient, a, 0, rej)
               = Rollback(SbtcLedger, Err(ERR_INVALID_DURATION), <<>>)
    /\ \A id \in DOMAIN streams : streams[id].start_block < streams[id].end_block

\* A create was turned down with ERR-INVALID-DURATION on a ledger that holds a stream.
C16_Witness ==
    /\ last.op = "create-stream"
    /\ IsErr(last.res, ERR_INVALID_DURATION)
    /\ get_stream_count(stream_nonce) > 0
    /\ sbtc_balances[get_contract_principal] > 0


\* The ids 0 .. count - 1 and no others have a record; get-stream returns the record
\* for these and none for any other id; the count is the number of entries the
\* successful creates have appended to the senders' lists.
C17_IdsAreDense ==
    /\ DOMAIN streams = 0..(get_stream_count(stream_nonce) - 1)
    /\ \A id \in 0..(MaxStreams + 1) :
           IF id < get_stream_count(stream_nonce)
           THEN get_stream(streams, id) = [kind |-> "some", val |-> streams[id]]
           ELSE get_stream(streams, id) = [kind |-> "none", val |-> 0]
    /\ SumOver([p \in Principals |-> Len(sender_streams[p])], Principals)
           = get_stream_count(stream_nonce)

\* A successful create returns the counter's value, stores the record under it, keeps
\* every earlier record in place and adds one to the counter; no other step changes
\* the counter or the ids in use.
C17_CreateStep ==
    IF last'.op = "create-stream" /\ last'.res.kind = "ok"
    THEN /\ last'.res.val = stream_nonce
         /\ stream_nonce' = stream_nonce + 1
         /\ stream_nonce \notin DOMAIN streams
         /\ DOMAIN streams' = DOMAIN streams \cup {stream_nonce}
         /\ \A id \in DOMAIN streams : streams'[id] = streams[id]
    ELSE /\ stream_nonce' = stream_nonce
         /\ DOMAIN streams' = DOMAIN streams

\* C17: each successful create returns the counter value before the call and adds 1 to
\* the counter, failed calls leave it; ids are 0, 1, 2, .. in creation order and never
\* reused, get-stream-count is the number of successful creates, and get-stream
\* returns a record exactly for the ids below the count and none otherwise.
C17_IdsFollowCounter ==
    /\ []C17_IdsAreDense
    /\ [][C17_CreateStep]_vars

\* The second create succeeded and returned id 1.
C17_Witness ==
    /\ Succeeded("create-stream")
    /\ last.res.val = 1
    /\ get_stream_count(stream_nonce) = 2
    /\ get_stream(streams, 2).kind = "none"


\* The record and the balances a successful create by `caller` leaves.
C18_StoresWhatWasAsked ==
    \A caller \in Principals, recipient \in Principals, a \in Amounts, d \in Durations,
       rej \in TokenRejections :
        LET r == create_stream(SbtcLedger, block_height, caller, recipient, a, d, rej)
        IN
        r.res.kind = "ok" =>
            /\ r.res.val = stream_nonce
            /\ r.st.streams[stream_nonce] =
                   [sender |-> caller, recipient |-> recipient, total_amount |-> a,
                    withdrawn |-> 0, start_block |-> block_height,
                    end_block |-> block_height + d, active |-> TRUE]
            /\ r.st.bal = [sbtc_balances EXCEPT ![caller] = @ - a,
                                                ![get_contract_principal] = @ + a]
            /\ r.log = << <<caller, get_contract_principal, a>> >>

\* A successful create step stores an active record with nothing withdrawn that starts
\* at the current block, and moves its total from its sender to the contract.
C18_CreateStep ==
    (last'.op = "create-stream" /\ last'.res.kind = "ok") =>
        LET stream == streams'[last'.id]
        IN
        /\ stream.withdrawn = 0
        /\ stream.active
        /\ stream.start_block = block_height
        /\ stream.end_block > stream.start_block
        /\ last'.log = << <<stream.sender, get_contract_principal, stream.total_amount>> >>
        /\ sbtc_balances' =
               [sbtc_balances EXCEPT ![stream.sender] = @ - stream.total_amount,
                                     ![get_contract_principal] = @ + stream.total_amount]

\* C18: a successful create(recipient, total, duration) by caller s at block b stores
\* sender = s, recipient, total-amount = total, withdrawn = 0, start-block = b,
\* end-block = b + duration and active = true, and moves exactly total from s to the
\* contract.
C18_CreateStoresRecord ==
    /\ []C18_StoresWhatWasAsked
    /\ [][C18_CreateStep]_vars

\* A stream was created after the first block by a sender other than its recipient.
C18_Witness ==
    /\ Succeeded("create-stream")
    /\ streams[last.id].start_block = 2
    /\ streams[last.id].end_block = 2 + MaxDuration
    /\ streams[last.id].sender = "wallet_1"
    /\ streams[last.id].recipient = "wallet_2"
    /\ streams[last.id].total_amount = MaxAmount
    /\ sbtc_balances["wallet_1"] = InitBalance - MaxAmount


\* C19: a successful withdraw at block b returns exactly what get-withdrawable reports
\* for the stream at block b before the call, vested(b) - withdrawn, and moves exactly
\* that amount from the contract to the recipient.
C19_WithdrawStep ==
    (last'.op = "withdraw" /\ last'.res.kind = "ok") =>
        LET id == last'.id
            reported == get_withdrawable(streams, id, block_height)
        IN
        /\ last'.res = reported
        /\ reported.val = VestedNow(id).val - streams[id].withdrawn
        /\ reported.val > 0
        /\ last'.log = << <<get_contract_principal, streams[id].recipient, reported.val>> >>
        /\ sbtc_balances'[streams[id].recipient]
               = sbtc_balances[streams[id].recipient] + reported.val
        /\ sbtc_balances'[get_contract_principal]
               = sbtc_balances[get_contract_principal] - reported.val
        /\ \A h \in Holders \ {streams[id].recipient, get_contract_principal} :
               sbtc_balances'[h] = sbtc_balances[h]

C19_WithdrawPaysWithdrawable == [][C19_WithdrawStep]_vars

\* A later withdraw of a stream paid the part that had vested since the one before.
C19_Witness ==
    /\ Succeeded("withdraw")
    /\ last.res.val > 1
    /\ streams[last.id].withdrawn > last.res.val
    /\ streams[last.id].withdrawn < streams[last.id].total_amount


\* What the streams of recipient `p` record as withdrawn, all together.
WithdrawnBy(p) ==
    SumOver([id \in DOMAIN streams |-> streams[id].withdrawn],
            {id \in DOMAIN streams : streams[id].recipient = p})

\* C20: after a successful withdraw at block b the record has withdrawn = vested(b),
\* and what the recipient (who started with nothing and is sender of no stream) has
\* been paid in all is the recorded withdrawn, however many withdraws there were and
\* at whichever blocks.
C20_NoDrift ==
    /\ Succeeded("withdraw") =>
           streams[last.id].withdrawn = VestedNow(last.id).val
    /\ \A p \in Principals \ {"wallet_1"} :
           sbtc_balances[p] = WithdrawnBy(p)

\* The largest stream over the longest duration (7 over 3 blocks) was withdrawn in
\* parts, 2 + 2 + 3 or 4 + 3, the division rounding down each time, and the recipient
\* holds all of it.
C20_Witness ==
    /\ Succeeded("withdraw")
    /\ last.res.val = VestBalance - (2 * VestBalance) \div VestDuration
    /\ streams[last.id].total_amount = VestBalance
    /\ streams[last.id].end_block - streams[last.id].start_block = VestDuration
    /\ streams[last.id].withdrawn = VestBalance
    /\ sbtc_balances[streams[last.id].recipient] = VestBalance


\* C21: at any block, for any active stream with vested(now) > withdrawn, a withdraw
\* of the recipient meets no error of the ledger: with the token transferring it
\* returns ok and pays vested - withdrawn, which the contract holds; when the token
\* rejects, the error is the token's.  Nothing is asked of the sender.
C21_RecipientCanWithdraw ==
    \A id \in DOMAIN streams :
        (streams[id].active /\ VestedNow(id).val > streams[id].withdrawn) =>
            LET due == VestedNow(id).val - streams[id].withdrawn
                r == withdraw(SbtcLedger, block_height, streams[id].recipient, id, 0)
            IN
            /\ sbtc_balances[get_contract_principal] >= due
            /\ r.res = Ok(due)
            /\ r.log = << <<get_contract_principal, streams[id].recipient, due>> >>
            /\ \A rej \in TokenRejections \ {0} :
                   withdraw(SbtcLedger, block_height, streams[id].recipient, id, rej).res
                       = Err(rej)

\* The recipient withdrew from one stream while another stream, cancelled by its
\* sender, had taken its refund out of the same pool.
C21_Witness ==
    /\ Succeeded("withdraw")
    /\ \E id \in DOMAIN streams :
           /\ id # last.id
           /\ ~streams[id].active
           /\ streams[id].withdrawn < streams[id].total_amount


\* How many entries of the list are `id`.
Occurrences(list, id) == Cardinality({i \in DOMAIN list : list[i] = id})

\* Every stream's id is once in its sender's outgoing list and once in its recipient's
\* incoming list, and in no other principal's.
C22_ListedOnce ==
    \A id \in DOMAIN streams, p \in Principals :
        /\ Occurrences(sender_streams[p], id)
               = IF p = streams[id].sender THEN 1 ELSE 0
        /\ Occurrences(recipient_streams[p], id)
               = IF p = streams[id].recipient THEN 1 ELSE 0

\* A successful create appends its id at the end of the two lists; every other step
\* leaves all lists as they are.
C22_ListStep ==
    IF last'.op = "create-stream" /\ last'.res.kind = "ok"
    THEN LET id == last'.res.val
             stream == streams'[id]
         IN
         /\ sender_streams' =
                [sender_streams EXCEPT ![stream.sender] = Append(@, id)]
         /\ recipient_streams' =
                [recipient_streams EXCEPT ![stream.recipient] = Append(@, id)]
    ELSE UNCHANGED <<sender_streams, recipient_streams>>

\* C22: each successful create appends the new id once to the sender's outgoing list
\* and once to the recipient's incoming list (lists below 50 entries); withdraw and
\* cancel change no list, and nothing removes or reorders entries.
C22_IndexesAppendOnly ==
    /\ []C22_ListedOnce
    /\ [][C22_ListStep]_vars

\* A principal's list holds two ids in creation order after a withdraw or a cancel.
C22_Witness ==
    /\ last.op \in {"withdraw", "cancel-stream"}
    /\ last.res.kind = "ok"
    /\ recipient_streams["wallet_2"] = <<0, 1>>
    /\ \E p \in Principals : sender_streams[p] = <<0, 1>>


\* Whether the list holds `id`.
Listed(list, id) == \E i \in DOMAIN list : list[i] = id

\* A create by a sender with a full outgoing list, or to a recipient with a full
\* incoming list, succeeds like any other: id returned, record stored, counter
\* advanced, total escrowed; the full list keeps its entries and the id is not in it.
C23_CreateStep ==
    (last'.op = "create-stream" /\ last'.res.kind = "ok") =>
        LET id == last'.res.val
            stream == streams'[id]
        IN
        /\ id = stream_nonce
        /\ stream_nonce' = stream_nonce + 1
        /\ get_stream(streams', id) = [kind |-> "some", val |-> stream]
        /\ sbtc_balances'[get_contract_principal]
               = sbtc_balances[get_contract_principal] + stream.total_amount
        /\ IF Len(sender_streams[stream.sender]) = MaxListLen
           THEN /\ sender_streams'[stream.sender] = sender_streams[stream.sender]
                /\ ~Listed(sender_streams'[stream.sender], id)
           ELSE sender_streams'[stream.sender] = Append(sender_streams[stream.sender], id)
        /\ IF Len(recipient_streams[stream.recipient]) = MaxListLen
           THEN /\ recipient_streams'[stream.recipient]
                       = recipient_streams[stream.recipient]
                /\ ~Listed(recipient_streams'[stream.recipient], id)
           ELSE recipient_streams'[stream.recipient]
                    = Append(recipient_streams[stream.recipient], id)

\* A stream that is in no list of its sender or its recipient is retrievable by id,
\* and while it is active its recipient can withdraw what has vested and its sender
\* can cancel it.
C23_UnlistedStillUsable ==
    \A id \in DOMAIN streams :
        (\/ ~Listed(sender_streams[streams[id].sender], id)
         \/ ~Listed(recipient_streams[streams[id].recipient], id)) =>
            /\ get_stream(streams, id).kind = "some"
            /\ (streams[id].active /\ VestedNow(id).val > streams[id].withdrawn) =>
                   withdraw(SbtcLedger, block_height, streams[id].recipient, id, 0).res
                       = Ok(VestedNow(id).val - streams[id].withdrawn)
            /\ streams[id].active =>
                   cancel_stream(SbtcLedger, block_height, streams[id].sender, id, 0, 0)
                       .res.kind = "ok"

\* C23: with 50 ids in a principal's list, a further create with that principal in
\* that role succeeds, the list stays at its 50 entries without the new id, and the
\* new stream can be read, withdrawn from and cancelled by id.
C23_FullListDropsNewId ==
    /\ []C23_UnlistedStillUsable
    /\ [][C23_CreateStep]_vars

\* The recipient, whose incoming list is full, withdrew from the stream created after
\* it was full, which the list does not hold.
C23_Witness ==
    /\ Succeeded("withdraw")
    /\ last.id = MaxListLen
    /\ Len(recipient_streams[streams[last.id].recipient]) = MaxListLen
    /\ ~Listed(recipient_streams[streams[last.id].recipient], last.id)
    /\ Len(sender_streams[streams[last.id].sender]) = MaxListLen
    /\ ~Listed(sender_streams[streams[last.id].sender], last.id)


\* C24: a withdraw of the recipient on an active stream returns ERR-STREAM-DEPLETED
\* exactly when vested(now) = withdrawn: at or before start-block, when the division
\* rounds what has newly vested down to nothing, and after the whole total-amount has
\* been withdrawn.
C24_DepletedIffNothingDue ==
    \A id \in DOMAIN streams :
        streams[id].active =>
            \A rej \in TokenRejections :
                LET res == withdraw(SbtcLedger, block_height, streams[id].recipient,
                                    id, rej).res
                IN
                /\ IsErr(res, ERR_STREAM_DEPLETED)
                       <=> VestedNow(id).val = streams[id].withdrawn
                /\ block_height <= streams[id].start_block
                       => IsErr(res, ERR_STREAM_DEPLETED)
                /\ streams[id].withdrawn = streams[id].total_amount
                       => IsErr(res, ERR_STREAM_DEPLETED)

\* Blocks into an active stream the recipient's withdraw was turned down with
\* ERR-STREAM-DEPLETED: the division had rounded what vested since the last withdraw
\* down to nothing.
C24_Witness ==
    /\ last.op = "withdraw"
    /\ IsErr(last.res, ERR_STREAM_DEPLETED)
    /\ streams[last.id].active
    /\ streams[last.id].start_block + 1 < block_height
    /\ block_height < streams[last.id].end_block
    /\ calculate_vested_amount(streams, last.id, block_height - 1).val
           = VestedNow(last.id).val


\* C25: get-stream-progress returns floor(vested(now) * 100 / total-amount) for an
\* existing stream, a value in 0..100 that does not decrease with the block height,
\* and 0 for an id without a stream.
C25_ProgressIsPercentage ==
    /\ \A id \in DOMAIN streams :
           LET progress(now) == get_stream_progress(streams, id, now)
               vested(now) == calculate_vested_amount(streams, id, now).val
           IN
           /\ \A now \in VestHeights :
                  /\ progress(now).kind = "ok"
                  /\ IsFloor(progress(now).val, vested(now) * 100,
                             streams[id].total_amount)
                  /\ progress(now).val \in 0..100
           /\ \A now1 \in VestHeights, now2 \in VestHeights :
                  now1 <= now2 => progress(now1).val <= progress(now2).val
    /\ \A id \in 0..(MaxStreams + 1) :
           id \notin DOMAIN streams =>
               \A now \in VestHeights : get_stream_progress(streams, id, now) = Ok(0)

\* get-stream-progress returned a percentage that the division had rounded down.
C25_Witness ==
    /\ last.op = "get-stream-progress"
    /\ last.id \in DOMAIN streams
    /\ last.res.kind = "ok"
    /\ last.res.val \in 1..99
    /\ (VestedNow(last.id).val * 100) % streams[last.id].total_amount # 0


\* C26: after creation a stream's id, sender, recipient, total-amount, start-block and
\* end-block never change and its record is never deleted; withdraw changes only the
\* withdrawn field of the stream it names, cancel-stream only its active and withdrawn
\* fields, and neither changes another stream, the id counter or an index list.
C26_Immutable ==
    /\ DOMAIN streams \subseteq DOMAIN streams'
    /\ \A id \in DOMAIN streams :
           /\ streams'[id].sender = streams[id].sender
           /\ streams'[id].recipient = streams[id].recipient
           /\ streams'[id].total_amount = streams[id].total_amount
           /\ streams'[id].start_block = streams[id].start_block
           /\ streams'[id].end_block = streams[id].end_block

C26_OnlyWithdrawAndCancelWrite ==
    \A id \in DOMAIN streams :
        streams'[id] # streams[id] =>
            /\ last'.op \in {"withdraw", "cancel-stream"}
            /\ last'.res.kind = "ok"
            /\ last'.id = id

C26_WithdrawFrame ==
    last'.op = "withdraw" =>
        /\ DOMAIN streams' = DOMAIN streams
        /\ \A id \in DOMAIN streams : streams'[id].active = streams[id].active
        /\ UNCHANGED <<stream_nonce, sender_streams, recipient_streams>>

C26_CancelFrame ==
    last'.op = "cancel-stream" =>
        /\ DOMAIN streams' = DOMAIN streams
        /\ UNCHANGED <<stream_nonce, sender_streams, recipient_streams>>

C26_Frame ==
    [][C26_Immutable /\ C26_OnlyWithdrawAndCancelWrite /\ C26_WithdrawFrame
          /\ C26_CancelFrame]_vars

\* One stream was withdrawn from in full and is still active, the other was then
\* cancelled.
C26_Witness ==
    /\ Succeeded("cancel-stream")
    /\ ~streams[last.id].active
    /\ \E other \in DOMAIN streams :
           /\ other # last.id
           /\ streams[other].active
           /\ streams[other].withdrawn = streams[other].total_amount


\* C27: the sBTC ledger and the STX ledger are the same state machine: given the same
\* calls by the same callers at the same block heights, the token accepting every
\* transfer it is asked for, they return the same responses, make the same transfers
\* and hold equal records, counters, index lists and balances after every step; a call
\* on one ledger leaves the state of the other unchanged.
C27_SameResponses ==
    SbtcLedger = StxLedger =>
        /\ \A c \in Senders, r \in Recipients, a \in Amounts, d \in Durations :
               create_stx_stream(StxLedger, block_height, c, r, a, d)
                   = create_stream(SbtcLedger, block_height, c, r, a, d, 0)
        /\ \A c \in Principals, id \in StreamIds :
               /\ withdraw_stx(StxLedger, block_height, c, id)
                      = withdraw(SbtcLedger, block_height, c, id, 0)
               /\ cancel_stx_stream(StxLedger, block_height, c, id)
                      = cancel_stream(SbtcLedger, block_height, c, id, 0, 0)

C27_InStep ==
    (SbtcLedger = StxLedger /\ last'.op \in TwinOps) => SbtcLedger' = StxLedger'

C27_OtherLedgerUntouched ==
    /\ last'.op \in {"create-stream", "withdraw", "cancel-stream"}
           => UNCHANGED stx_vars
    /\ last'.op \in {"create-stx-stream", "withdraw-stx", "cancel-stx-stream"}
           => UNCHANGED sbtc_vars

C27_SameStateMachine ==
    /\ []C27_SameResponses
    /\ [][C27_InStep /\ C27_OtherLedgerUntouched]_vars

\* Both ledgers hold two streams, one partly withdrawn, and have just cancelled the
\* other, paying both parties.
C27_Witness ==
    /\ last.op = "cancel-stream, cancel-stx-stream"
    /\ last.res.kind = "ok"
    /\ Len(last.log) = 2
    /\ SbtcLedger = StxLedger
    /\ stx_stream_nonce = 2
    /\ \E other \in DOMAIN stx_streams :
           /\ other # last.id
           /\ stx_streams[other].active
           /\ stx_streams[other].withdrawn > 0


\* C28: withdraw reports its errors in the order ERR-STREAM-NOT-FOUND, ERR-NOT-RECIPIENT,
\* ERR-STREAM-NOT-ACTIVE, ERR-STREAM-DEPLETED and cancel-stream in the order
\* ERR-STREAM-NOT-FOUND, ERR-NOT-SENDER, ERR-STREAM-NOT-ACTIVE: of the rejection
\* conditions that hold at once the first in this order is the one returned, whatever
\* the token would answer.
C28_WithdrawOrder ==
    \A c \in Principals, id \in StreamIds, rej \in TokenRejections :
        LET res == withdraw(SbtcLedger, block_height, c, id, rej).res
        IN
        IF id \notin DOMAIN streams THEN IsErr(res, ERR_STREAM_NOT_FOUND)
        ELSE IF c # streams[id].recipient THEN IsErr(res, ERR_NOT_RECIPIENT)
        ELSE IF ~streams[id].active THEN IsErr(res, ERR_STREAM_NOT_ACTIVE)
        ELSE IF VestedNow(id).val = streams[id].withdrawn
             THEN IsErr(res, ERR_STREAM_DEPLETED)
        ELSE ~IsErr(res, ERR_STREAM_NOT_FOUND) /\ ~IsErr(res, ERR_NOT_RECIPIENT)
             /\ ~IsErr(res, ERR_STREAM_NOT_ACTIVE) /\ ~IsErr(res, ERR_STREAM_DEPLETED)

C28_CancelOrder ==
    \A c \in Principals, id \in StreamIds, rej1 \in TokenRejections,
       rej2 \in TokenRejections :
        LET res == cancel_stream(SbtcLedger, block_height, c, id, rej1, rej2).res
        IN
        IF id \notin DOMAIN streams THEN IsErr(res, ERR_STREAM_NOT_FOUND)
        ELSE IF c # streams[id].sender THEN IsErr(res, ERR_NOT_SENDER)
        ELSE IF ~streams[id].active THEN IsErr(res, ERR_STREAM_NOT_ACTIVE)
        ELSE ~IsErr(res, ERR_STREAM_NOT_FOUND) /\ ~IsErr(res, ERR_NOT_SENDER)
             /\ ~IsErr(res, ERR_STREAM_NOT_ACTIVE)

C28_ErrorOrder == C28_WithdrawOrder /\ C28_CancelOrder

\* A withdraw from a cancelled stream with nothing left to pay was answered with
\* ERR-NOT-RECIPIENT: all three rejection conditions held.
C28_Witness ==
    /\ last.op = "withdraw"
    /\ IsErr(last.res, ERR_NOT_RECIPIENT)
    /\ last.id \in DOMAIN streams
    /\ ~streams[last.id].active
    /\ VestedNow(last.id).val = streams[last.id].withdrawn


\* C29: the subtractions vested - withdrawn and total - vested, which withdraw,
\* cancel-stream and get-withdrawable evaluate before any check of the caller or of
\* active, do not underflow in any reachable state at the current or any later block
\* height, so for every caller these functions return a response and never abort.
C29_NoUnderflow ==
    \A id \in DOMAIN streams, now \in VestHeights :
        now >= block_height =>
            LET v == calculate_vested_amount(streams, id, now)
            IN
            /\ ~v.abort
            /\ v.val - streams[id].withdrawn >= 0
            /\ streams[id].total_amount - v.val >= 0
            /\ get_withdrawable(streams, id, now).kind = "ok"
            /\ \A c \in Principals, rej1 \in TokenRejections, rej2 \in TokenRejections :
                   /\ withdraw(SbtcLedger, now, c, id, rej1).res.kind # "abort"
                   /\ cancel_stream(SbtcLedger, now, c, id, rej1, rej2).res.kind
                          # "abort"

\* A withdraw from a stream cancelled at an earlier block, after a withdrawal, was
\* answered with an error response.
C29_Witness ==
    /\ last.op = "withdraw"
    /\ last.res.kind = "err"
    /\ last.id \in DOMAIN streams
    /\ ~streams[last.id].active
    /\ streams[last.id].withdrawn > 0
    /\ VestedNow(last.id).val > streams[last.id].withdrawn


\* C30: for every existing stream at every block get-withdrawable returns exactly what
\* a withdraw by the recipient in that block would pay, and 0 whenever that withdraw
\* would be rejected; in particular 0 for a cancelled stream at every block after the
\* cancellation.
C30_WithdrawableIsWhatWithdrawPays ==
    \A id \in DOMAIN streams :
        LET paid == withdraw(SbtcLedger, block_height, streams[id].recipient, id, 0).res
            shown == get_withdrawable(streams, id, block_height)
        IN
        IF paid.kind = "ok" THEN shown = Ok(paid.val) ELSE shown = Ok(0)


\* C31: cancel-stream attempts a transfer only for a strictly positive amount.  At or
\* before start-block it returns {recipient-received: 0, sender-refunded: total-amount}
\* with a single transfer, to the sender; at or after end-block it returns
\* {recipient-received: total-amount - withdrawn, sender-refunded: 0} with at most a
\* single transfer, to the recipient; a zero amount makes no transfer and never makes
\* the cancel fail.
C31_CancelAt(id, now) ==
    LET stream == streams[id]
        r == cancel_stream(SbtcLedger, now, stream.sender, id, 0, 0)
        to_recipient == stream.total_amount - stream.withdrawn
    IN
    /\ r.res.kind = "ok"
    /\ \A i \in DOMAIN r.log : r.log[i][3] > 0
    /\ now <= stream.start_block =>
           /\ r.res.val = [recipient_received |-> 0,
                           sender_refunded |-> stream.total_amount]
           /\ r.log = <<<<get_contract_principal, stream.sender, stream.total_amount>>>>
    /\ now >= stream.end_block =>
           /\ r.res.val = [recipient_received |-> to_recipient, sender_refunded |-> 0]
           /\ r.log = IF to_recipient > 0
                      THEN <<<<get_contract_principal, stream.recipient, to_recipient>>>>
                      ELSE <<>>

C31_CancelTransfersOnlyPositive ==
    \A id \in DOMAIN streams, now \in VestHeights :
        (streams[id].active /\ now >= block_height) => C31_CancelAt(id, now)

\* A stream was cancelled at or after its end-block after a partial withdrawal: the
\* recipient got the rest in the only transfer.
C31_Witness ==
    /\ Succeeded("cancel-stream")
    /\ block_height >= streams[last.id].end_block
    /\ last.res.val.sender_refunded = 0
    /\ last.res.val.recipient_received \in 1..(streams[last.id].total_amount - 1)
    /\ Len(last.log) = 1


\* C32: withdraw never changes active: a stream whose whole total-amount was withdrawn
\* after end-block is still stored with active = true, and a later cancel-stream by its
\* sender succeeds, returns {recipient-received: 0, sender-refunded: 0}, makes no
\* transfer and sets active to false.
C32_WithdrawKeepsActive ==
    (last'.op = "withdraw" /\ last'.res.kind = "ok") =>
        /\ \A id \in DOMAIN streams : streams'[id].active = streams[id].active
        /\ streams'[last'.id].active

C32_CancelOfPaidOutStream ==
    \A id \in DOMAIN streams :
        (streams[id].active /\ streams[id].withdrawn = streams[id].total_amount) =>
            \A rej1 \in TokenRejections, rej2 \in TokenRejections :
                LET r == cancel_stream(SbtcLedger, block_height, streams[id].sender, id,
                                       rej1, rej2)
                IN
                /\ r.res = Ok([recipient_received |-> 0, sender_refunded |-> 0])
                /\ r.log = <<>>
                /\ r.st.bal = sbtc_balances
                /\ ~r.st.streams[id].active
                /\ r.st.streams[id].withdrawn = streams[id].total_amount

C32_PaidOutStreamStaysActive ==
    /\ []C32_CancelOfPaidOutStream
    /\ [][C32_WithdrawKeepsActive]_vars

\* A stream paid out in full has been cancelled by its sender: nothing moved.
C32_Witness ==
    /\ Succeeded("cancel-stream")
    /\ last.res.val = [recipient_received |-> 0, sender_refunded |-> 0]
    /\ last.log = <<>>
    /\ ~streams[last.id].active
    /\ streams[last.id].withdrawn = streams[last.id].total_amount
    /\ block_height >= streams[last.id].end_block


\* C33: when the recipient's withdraw and the sender's cancel-stream for the same active
\* stream run at the same block height b, both orders end in the same state: the record
\* has active = false and withdrawn = vested(b), the recipient has received
\* vested(b) - withdrawn-before in all and the sender total-amount - vested(b); only the
\* responses differ (after the cancel the withdraw fails with ERR-STREAM-NOT-ACTIVE).
C33_BothOrders(id) ==
    LET stream == streams[id]
        vested == VestedNow(id).val
        w1 == withdraw(SbtcLedger, block_height, stream.recipient, id, 0)
        c1 == cancel_stream(w1.st, block_height, stream.sender, id, 0, 0)
        c2 == cancel_stream(SbtcLedger, block_height, stream.sender, id, 0, 0)
        w2 == withdraw(c2.st, block_height, stream.recipient, id, 0)
    IN
    /\ c1.st = w2.st
    /\ c1.res.kind = "ok"
    /\ c2.res.kind = "ok"
    /\ IsErr(w2.res, ERR_STREAM_NOT_ACTIVE)
    /\ IF vested > stream.withdrawn
       THEN w1.res = Ok(vested - stream.withdrawn)
       ELSE IsErr(w1.res, ERR_STREAM_DEPLETED)
    /\ c1.st.streams = [streams EXCEPT ![id] =
                           [@ EXCEPT !.active = FALSE, !.withdrawn = vested]]
    /\ c1.st.bal = PaidOut(PaidOut(sbtc_balances, stream.recipient,
                                   vested - stream.withdrawn),
                           stream.sender, stream.total_amount - vested)
    /\ c1.st.nonce = stream_nonce
    /\ c1.st.snd = sender_streams
    /\ c1.st.rcp = recipient_streams

C33_WithdrawAndCancelCommute ==
    \A id \in DOMAIN streams : streams[id].active => C33_BothOrders(id)

\* Within a stream, the recipient withdrew what had vested in this block and the sender
\* then cancelled in the same block: the cancel paid the sender only.
C33_Witness ==
    /\ Succeeded("cancel-stream")
    /\ last.res.val.recipient_received = 0
    /\ last.res.val.sender_refunded > 0
    /\ streams[last.id].withdrawn > 0
    /\ calculate_vested_amount(streams, last.id, block_height - 1).val
           < streams[last.id].withdrawn


\* Every id in a principal's outgoing list is a stream that principal sends and every id
\* in a principal's incoming list a stream that principal receives; every list is
\* strictly increasing and has at most MaxListLen entries.
C34_ListsAreSound ==
    \A p \in Principals :
        /\ \A i \in DOMAIN sender_streams[p] :
               /\ sender_streams[p][i] \in DOMAIN streams
               /\ streams[sender_streams[p][i]].sender = p
        /\ \A i \in DOMAIN recipient_streams[p] :
               /\ recipient_streams[p][i] \in DOMAIN streams
               /\ streams[recipient_streams[p][i]].recipient = p
        /\ \A i \in DOMAIN sender_streams[p], j \in DOMAIN sender_streams[p] :
               i < j => sender_streams[p][i] < sender_streams[p][j]
        /\ \A i \in DOMAIN recipient_streams[p], j \in DOMAIN recipient_streams[p] :
               i < j => recipient_streams[p][i] < recipient_streams[p][j]
        /\ Len(sender_streams[p]) <= MaxListLen
        /\ Len(recipient_streams[p]) <= MaxListLen

\* The list held MaxListLen older ids when stream `id` was created.
C34_WasFull(list, id) ==
    /\ Len(list) = MaxListLen
    /\ \A i \in DOMAIN list : list[i] < id

\* C34 as stated: in every reachable state each id in a principal's outgoing list is an
\* existing stream sent by that principal and each id in a principal's incoming list an
\* existing stream received by that principal; every list is strictly increasing and
\* has at most 50 entries; a stream whose recipient is its sender is in both lists of
\* that principal.
C34_Original ==
    /\ C34_ListsAreSound
    /\ \A id \in DOMAIN streams :
           streams[id].sender = streams[id].recipient =>
               /\ Listed(sender_streams[streams[id].sender], id)
               /\ Listed(recipient_streams[streams[id].sender], id)

\* C34, amended: as stated, except that a stream whose recipient is its sender is
\* missing from a list of that principal that already held 50 entries when the stream
\* was created, and only from such a list.
C34_IndexesAreSound ==
    /\ C34_ListsAreSound
    /\ \A id \in DOMAIN streams :
           streams[id].sender = streams[id].recipient =>
               LET p == streams[id].sender
               IN
               /\ Listed(sender_streams[p], id) \/ C34_WasFull(sender_streams[p], id)
               /\ Listed(recipient_streams[p], id)
                      \/ C34_WasFull(recipient_streams[p], id)

\* A principal with a full outgoing list created a stream to itself: the stream is in
\* its incoming list only.
C34_Witness ==
    /\ Succeeded("create-stream")
    /\ last.res.val \in DOMAIN streams
    /\ streams[last.res.val].sender = streams[last.res.val].recipient
    /\ Listed(recipient_streams[streams[last.res.val].sender], last.res.val)
    /\ ~Listed(sender_streams[streams[last.res.val].sender], last.res.val)


\* C35: with blocks advancing and the recipient retrying withdraw (weak fairness on
\* both, transfers succeeding), every stream that is never cancelled reaches
\* withdrawn = total-amount at a block >= end-block; from then on every withdraw on it
\* fails with ERR-STREAM-DEPLETED and the pool holds nothing for it.  Every stream ends
\* cancelled or fully withdrawn.
C35_Settled(id) ==
    /\ id \in DOMAIN streams
    /\ \/ ~streams[id].active
       \/ /\ streams[id].withdrawn = streams[id].total_amount
          /\ block_height >= streams[id].end_block

C35_PaidOutIsDepleted ==
    \A id \in DOMAIN streams :
        streams[id].withdrawn = streams[id].total_amount =>
            /\ block_height >= streams[id].end_block
            /\ streams[id].active =>
                   \A now \in VestHeights, rej \in TokenRejections :
                       now >= block_height =>
                           IsErr(withdraw(SbtcLedger, now, streams[id].recipient, id,
                                          rej).res,
                                 ERR_STREAM_DEPLETED)
            /\ sbtc_balances[get_contract_principal]
                   = Owed([i \in DOMAIN streams \ {id} |-> streams[i]])

C35_SettledForGood ==
    \A id \in DOMAIN streams :
        /\ streams[id].withdrawn = streams[id].total_amount
               => streams'[id].withdrawn = streams'[id].total_amount
        /\ ~streams[id].active => ~streams'[id].active

C35_EveryStreamSettles ==
    /\ \A id \in 0..(MaxStreams - 1) :
           (id \in DOMAIN streams) ~> C35_Settled(id)
    /\ []C35_PaidOutIsDepleted
    /\ [][C35_SettledForGood]_sbtc_vars

\* A stream that was never cancelled is paid out in full and a further withdraw of its
\* recipient has just failed with ERR-STREAM-DEPLETED.
C35_Witness ==
    /\ last.op = "withdraw"
    /\ IsErr(last.res, ERR_STREAM_DEPLETED)
    /\ last.id \in DOMAIN streams
    /\ streams[last.id].active
    /\ streams[last.id].withdrawn = streams[last.id].total_amount
    /\ block_height >= streams[last.id].end_block


\* C36: the status the frontend shows follows the ledger: 'completed' only for a stream
\* that is active, has withdrawn >= total-amount and whose end-block the current block
\* has reached; 'cancelled' for every stream with active = false; 'active' for every
\* other stream.
C36_StatusFollowsLedger ==
    \A id \in DOMAIN streams :
        LET stream == streams[id]
            status == stream_status(stream, block_height)
            paid_out == /\ stream.active
                        /\ stream.withdrawn >= stream.total_amount
                        /\ block_height >= stream.end_block
        IN
        /\ status = "completed" => paid_out
        /\ ~stream.active => status = "cancelled"
        /\ (stream.active /\ ~paid_out) => status = "active"


\* C37: a withdraw transaction built by the frontend with expectedAmount the
\* withdrawable amount read at block b, and executed at a block b' >= b on a stream for
\* which the contract's withdraw succeeds, is not aborted by its post-condition.
C37_WithdrawTxNotAborted ==
    \A id \in DOMAIN streams, later \in block_height..MaxHeight :
        LET recipient == streams[id].recipient
            expectedAmount == get_withdrawable(streams, id, block_height).val
        IN
        withdraw(SbtcLedger, later, recipient, id, 0).res.kind = "ok" =>
            withdraw_tx(SbtcLedger, later, recipient, id, expectedAmount, 0).res.kind
                # "abort_by_post_condition"


\* C38: a cancel transaction built by the frontend with expectedRefund = total-amount
\* less the vested amount read at block b, and executed at a block b' >= b on an active
\* stream, is not aborted by its post-condition, whatever has vested and is not yet
\* withdrawn at b'.
C38_CancelTxNotAborted ==
    \A id \in DOMAIN streams, later \in block_height..MaxHeight :
        LET sender == streams[id].sender
            expectedRefund == streams[id].total_amount
                                  - get_vested(streams, id, block_height).val
        IN
        streams[id].active =>
            cancel_tx(SbtcLedger, later, sender, id, expectedRefund, 0, 0).res.kind
                # "abort_by_post_condition"

====
